---------------------------- MODULE Spec2Model ----------------------------
(***************************************************************************)
(* Model of sync_asset_temperature_to_devices.py: the run that reconciles  *)
(* the desired min/max temperature of each asset with the values known for *)
(* its devices and sends Agility downlinks.                                *)
(*                                                                         *)
(* Attribute values are Python values: None, a number or a string.  A      *)
(* number is held as a count of quarter degrees (q = 4 * temperature), so  *)
(* that temperature * 2 can have a fractional part that int() truncates.   *)
(* A hex payload is a sequence of one-character strings; a payload of None *)
(* is the empty sequence (both are falsy in `if payload:`).                *)
(*                                                                         *)
(* The registry and the transport are the environment: every answer they   *)
(* give is drawn when the code asks for it.  Two kinds of registry are     *)
(* explored: a "varied" one, whose attributes take every kind of value     *)
(* (absent, "", 0, equal, different, non-numeric) and which returns at     *)
(* most MaxVariedDevices devices in a run, and a "uniform" one, whose      *)
(* assets all carry 20/25 and whose devices know 18 or 20 / 25, and which  *)
(* returns up to MaxDevices devices for each of up to MaxAssets assets.    *)
(*                                                                         *)
(* A DevEUI and every text normalize_deveui reads is a sequence of         *)
(* one-character strings; a device object holds the outcome of its         *)
(* attribute lookup, its name, its label and its additionalInfo, each a    *)
(* text, null (None) or not held (Missing).                                *)
(*                                                                         *)
(* Spec is a run of main().  UnitSpec calls the module's functions on      *)
(* their own, each on an input drawn from a bounded set.                   *)
(*                                                                         *)
(* heatmanager_common/melita.py and check_valvePosition.py are modelled    *)
(* further down, each with its own specification: MelitaSpec is a series   *)
(* of calls of the functions that share the module's bearer token,         *)
(* ValveSpec is a run of check_valvePosition's main().                     *)
(***************************************************************************)
EXTENDS Integers, Sequences, FiniteSets, TLC

(* ------------------------------ bounds -------------------------------- *)
MaxAssets == 2

MaxDevices == 2

MaxLimit == 2

\* devices a varied registry returns in one run, over all assets
MaxVariedDevices == 1

(* --------------------------- Python values ---------------------------- *)
None == [t |-> "none", q |-> 0, s |-> ""]

Num(q) == [t |-> "num", q |-> q, s |-> ""]

Str(s) == [t |-> "str", q |-> 0, s |-> s]

Deg(d) == Num(4 * d)

IsNone(v) == v.t = "none"

\* device_min_temp == "" or device_min_temp == 0
IsEmptyOrZero(v) == (v.t = "str" /\ v.s = "") \/ (v.t = "num" /\ v.q = 0)

\* `if args.limit`: None and 0 are falsy
Truthy(v) == v.t = "num" /\ v.q # 0

(* ---------------------------- payload codec --------------------------- *)
HexChars ==
    <<"0", "1", "2", "3", "4", "5", "6", "7",
      "8", "9", "A", "B", "C", "D", "E", "F">>

RECURSIVE ToHex(_)
ToHex(n) ==
    IF n < 16 THEN <<HexChars[n + 1]>>
    ELSE ToHex(n \div 16) \o <<HexChars[(n % 16) + 1]>>

\* format(n, '02X'): zero-padded to width 2, the sign counted in the width
Format02X(n) ==
    IF n < 0 THEN <<"-">> \o ToHex(-n)
    ELSE IF n < 16 THEN <<"0">> \o ToHex(n)
    ELSE ToHex(n)

\* int(float(temperature) * 2) for a temperature of q quarter degrees
IntTimes2(q) == IF q >= 0 THEN q \div 2 ELSE -((-q) \div 2)

NoPayload == <<>>

temperature_to_hex_payload(temperature, is_min) ==
    IF IsNone(temperature) THEN NoPayload
    ELSE IF temperature.t # "num" THEN NoPayload   \* float() raises ValueError
    ELSE (IF is_min THEN <<"3", "E">> ELSE <<"4", "0">>)
             \o Format02X(IntTimes2(temperature.q))

get_query_payload_swapped(is_min) == IF is_min THEN <<"B", "F">> ELSE <<"B", "D">>

get_query_payload(is_min) == IF is_min THEN <<"B", "D">> ELSE <<"B", "F">>

combine_query_payloads == <<"B", "D", "B", "F">>

combine_temperature_payloads_swapped(min_temp, max_temp) ==
    LET min_payload == temperature_to_hex_payload(min_temp, TRUE)
        max_payload == temperature_to_hex_payload(max_temp, FALSE)
    IN  IF min_payload # NoPayload /\ max_payload # NoPayload
        THEN max_payload \o min_payload
        ELSE NoPayload

combine_temperature_payloads(min_temp, max_temp) ==
    LET min_payload == temperature_to_hex_payload(min_temp, TRUE)
        max_payload == temperature_to_hex_payload(max_temp, FALSE)
    IN  IF min_payload # NoPayload /\ max_payload # NoPayload
        THEN min_payload \o max_payload
        ELSE NoPayload

(* ------------------------------- DevEUI ------------------------------- *)
\* A text is a Python str, held as a sequence of one-character strings.
Txt(c) == [t |-> "txt", c |-> c]

\* a key a dict does not hold
Missing == [t |-> "missing"]

\* an exception that leaves the function
AttributeError == [t |-> "raises"]

LowerCase ==
    <<"a", "b", "c", "d", "e", "f", "g", "h", "i", "j", "k", "l", "m",
      "n", "o", "p", "q", "r", "s", "t", "u", "v", "w", "x", "y", "z">>

UpperCase ==
    <<"A", "B", "C", "D", "E", "F", "G", "H", "I", "J", "K", "L", "M",
      "N", "O", "P", "Q", "R", "S", "T", "U", "V", "W", "X", "Y", "Z">>

\* the position of character ch in alphabet abc, 0 if it is not there
IndexIn(abc, ch) ==
    IF \E i \in 1..Len(abc) : abc[i] = ch
    THEN CHOOSE i \in 1..Len(abc) : abc[i] = ch
    ELSE 0

\* str.upper() and str.lower()
Upper(s) ==
    [i \in 1..Len(s) |-> IF IndexIn(LowerCase, s[i]) = 0 THEN s[i]
                         ELSE UpperCase[IndexIn(LowerCase, s[i])]]

Lower(s) ==
    [i \in 1..Len(s) |-> IF IndexIn(UpperCase, s[i]) = 0 THEN s[i]
                         ELSE LowerCase[IndexIn(UpperCase, s[i])]]

\* what str.strip() removes from both ends
Whitespace == {" ", "\t", "\n"}

RECURSIVE LStrip(_)
LStrip(s) ==
    IF s # <<>> /\ Head(s) \in Whitespace THEN LStrip(Tail(s)) ELSE s

RECURSIVE RStrip(_)
RStrip(s) ==
    IF s # <<>> /\ s[Len(s)] \in Whitespace
    THEN RStrip(SubSeq(s, 1, Len(s) - 1)) ELSE s

Strip(s) == RStrip(LStrip(s))

StartsWith(s, p) == Len(s) >= Len(p) /\ SubSeq(s, 1, Len(p)) = p

\* s.replace(old, ''): every occurrence, found from the left, is removed
RECURSIVE Replace(_, _)
Replace(s, old) ==
    IF s = <<>> THEN <<>>
    ELSE IF StartsWith(s, old)
    THEN Replace(SubSeq(s, Len(old) + 1, Len(s)), old)
    ELSE <<Head(s)>> \o Replace(Tail(s), old)

HexDigits ==
    {"0", "1", "2", "3", "4", "5", "6", "7", "8", "9",
     "A", "B", "C", "D", "E", "F"}

\* `not deveui`
Falsy(v) == v.t = "none" \/ (v.t = "txt" /\ v.c = <<>>)

\* lines 324-347; the second pair of replace() calls (lower case) comes after
\* upper() and finds nothing
normalize_deveui_16_chars(deveui) ==
    IF Falsy(deveui) THEN None
    ELSE LET s1 == Upper(Strip(deveui.c))
             s2 == Replace(Replace(s1, <<"E", "U", "I", "-">>),
                           <<"E", "U", "I", "_">>)
             s3 == Replace(Replace(Replace(s2, <<" ">>), <<"-">>), <<":">>)
         IN  IF Len(s3) = 16 THEN Txt(s3) ELSE None

normalize_deveui(deveui) ==
    IF Falsy(deveui) THEN None
    ELSE LET s1 == Upper(Strip(deveui.c))
             s2 == Replace(Replace(s1, <<"E", "U", "I", "-">>),
                           <<"E", "U", "I", "_">>)
             s3 == Replace(Replace(Replace(s2, <<" ">>), <<"-">>), <<":">>)
         IN  IF Len(s3) = 16 /\ \A i \in 1..Len(s3) : s3[i] \in HexDigits
             THEN Txt(s3)
             ELSE None

\* The result of one candidate: a valid DevEUI, None, or an exception.
\* lines 365-377: the declared attributes; everything that goes wrong in the
\* lookup is swallowed by the bare `except`
RECURSIVE FirstAttribute(_)
FirstAttribute(all_attrs) ==
    IF all_attrs = <<>> THEN None
    ELSE LET attr == Head(all_attrs)
             deveui == IF Lower(attr.key) \in {<<"d", "e", "v", "e", "u", "i">>,
                                               <<"e", "u", "i">>}
                       THEN normalize_deveui(attr.value) ELSE None
         IN  IF deveui # None THEN deveui
             ELSE FirstAttribute(Tail(all_attrs))

FromAttributes(device) ==
    IF device.lookup_ok THEN FirstAttribute(device.attrs) ELSE None

\* lines 380-384 and 387-391: device.get(key, '').strip(); a key held with
\* the value null gives None, which has no strip()
FromText(v) ==
    IF v.t = "none" THEN AttributeError
    ELSE IF v.t = "missing" THEN None
    ELSE IF Strip(v.c) = <<>> THEN None
    ELSE normalize_deveui(Txt(Strip(v.c)))

\* lines 394-400: the keys of additionalInfo, in the order they are tried
InfoKeys == <<"devEUI", "devEui", "DevEUI", "DevEui", "deveui", "eui">>

\* A dict maps every key it does not hold to Missing.
DictKeys == {InfoKeys[i] : i \in 1..Len(InfoKeys)} \cup {"DEVEUI"}

EmptyDict == [k \in DictKeys |-> Missing]

RECURSIVE FirstInfo(_, _)
FirstInfo(additional_info, keys) ==
    IF keys = <<>> THEN None
    ELSE LET deveui == IF additional_info[Head(keys)] # Missing
                       THEN normalize_deveui(additional_info[Head(keys)])
                       ELSE None
         IN  IF deveui # None THEN deveui
             ELSE FirstInfo(additional_info, Tail(keys))

\* additionalInfo is a dict (held in field d), null, or missing
FromAdditionalInfo(v) ==
    IF v.t = "dict" THEN FirstInfo(v.d, InfoKeys) ELSE None

\* lines 350-402
extract_deveui(device) ==
    LET a == FromAttributes(device)
        n == FromText(device.name)
        l == FromText(device.label)
    IN  IF a # None THEN a
        ELSE IF n # None THEN n
        ELSE IF l # None THEN l
        ELSE FromAdditionalInfo(device.additionalInfo)

(* --------------------- the environment's answers ---------------------- *)
\* minTemp / maxTemp an asset can carry; "abc" is not a number, and 130 is
\* a number whose double does not fit one byte
AssetMinVals(reg) ==
    IF reg = "varied" THEN {None, Deg(0), Deg(20), Str("abc")} ELSE {Deg(20)}

AssetMaxVals(reg) ==
    IF reg = "varied" THEN {None, Deg(0), Deg(25), Deg(130)} ELSE {Deg(25)}

\* manu_temp_min / manu_temp_max a device can carry
DeviceMinVals(reg) ==
    IF reg = "varied" THEN {None, Str(""), Deg(0), Deg(18), Deg(20)}
    ELSE {Deg(18), Deg(20)}

DeviceMaxVals(reg) ==
    IF reg = "varied" THEN {None, Str(""), Deg(0), Deg(24), Deg(25)}
    ELSE {Deg(25)}

\* a DevEUI of 16 hex digits that ends in ch, so that the candidates of one
\* device can be told apart
Eui(ch) == [i \in 1..16 |-> IF i = 16 THEN ch ELSE "0"]

Dict(d) == [t |-> "dict", d |-> d]

Attr(key, value) == [key |-> key, value |-> value]

DeviceObject(lookup_ok, attrs, name, label, additionalInfo) ==
    [lookup_ok |-> lookup_ok, attrs |-> attrs, name |-> name,
     label |-> label, additionalInfo |-> additionalInfo]

\* the device objects get_asset_devices returns: a thermostat named by its
\* DevEUI, and ones named otherwise whose label is "", null or not held
DeviceShapes(reg) ==
    LET named == DeviceObject(TRUE, <<>>, Txt(<<"E", "U", "I", "-">> \o Eui("a")),
                              Txt(<<>>), Missing)
        other(label, info) ==
            DeviceObject(TRUE, <<>>, Txt(<<"T", "h", "1">>), label, info)
    IN  IF reg = "varied"
        THEN {named, other(Txt(<<>>), None), other(Missing, Dict(EmptyDict)),
              other(None, Missing)}
        ELSE {named}

\* the device objects by what extract_deveui (line 697) makes of them
WithDevEUI ==
    {d \in DeviceShapes("varied") \cup DeviceShapes("uniform") :
        extract_deveui(d).t = "txt"}

WithoutDevEUI ==
    {d \in DeviceShapes("varied") \cup DeviceShapes("uniform") :
        extract_deveui(d) = None}

Raising ==
    {d \in DeviceShapes("varied") \cup DeviceShapes("uniform") :
        extract_deveui(d) = AttributeError}

\* devices the registry returns in one run
RunDevices(reg) ==
    IF reg = "varied" THEN MaxVariedDevices ELSE MaxAssets * MaxDevices

\* --limit: absent, or an integer
LimitVals == {None} \cup {Num(n) : n \in 0..MaxLimit}

\* what requests.post answers: a status code, or a RequestException
Responses == {"200", "500", "RequestException"}

AcceptedStatus_2xx == {"200", "201", "202", "204"}

AcceptedStatus == {"200", "201", "202"}

(* -------------------------------- state ------------------------------- *)
VARIABLES
    pc,                     \* position in main()
    registry,               \* the kind of registry: "varied" or "uniform"
    agility_url,            \* AGILITY_URL is set
    credentials,            \* THINGSBOARD_USERNAME and _PASSWORD are set
    dry_run,                \* args.dry_run
    limit,                  \* args.limit
    num_assets,             \* len(assets)
    ai,                     \* index of the asset of the outer loop
    num_devices,            \* len(devices) of the current asset
    di,                     \* index of the device of the inner loop
    asset_min_temp, asset_max_temp,
    device,                 \* the device object of the inner loop
    deveui,                 \* extract_deveui found an identifier
    device_min_temp, device_max_temp,
    devices_processed_count,
    limit_reached,
    stats,
    logged_in,              \* login_to_thingsboard() has succeeded
    calls,                  \* history: calls made to each collaborator
    asset_fetched,          \* history: what the asset just fetched carries
    fn, arg, ret,           \* a function called on its own: name, input, results
    stats0,                 \* history: stats before the current device
    known_min, known_max,   \* history: the device's attributes as fetched
    events,                 \* history: rows and sends of the current device
    posts,                  \* history: requests.post calls of the run
    dispatched,             \* history: frames given to send_downlink_to_agility
    eligible,               \* history: devices returned by get_asset_devices
    related,                \* history: assets whose relations name each device
    visits,                 \* history: passes of the device loop over each device
    melita_bearer_token,    \* melita.py: the module's bearer token
    MELITA_API_KEY,         \* melita.py: the API key is set
    token0,                 \* history: the bearer token before the last call
    trace,                  \* history: the requests of the last call
    ncalls,                 \* history: calls made to melita.py
    lns_api_key,            \* check_valvePosition.py: args.lns_api_key is set
    pg_login,               \* check_valvePosition.py: args.pg_user and args.pg_password are set
    devices,                \* check_valvePosition.py: the rows of the query
    row,                    \* check_valvePosition.py: rows the send loop has passed
    success_count, error_count,
    attempts                \* history: what the send loop did with each row

vars == <<pc, registry, agility_url, credentials, dry_run, limit, num_assets, ai,
          num_devices, di, asset_min_temp, asset_max_temp, deveui,
          device_min_temp, device_max_temp, devices_processed_count,
          limit_reached, stats, stats0, known_min, known_max, events, posts,
          dispatched, eligible, device, logged_in, calls, asset_fetched,
          fn, arg, ret, related, visits, melita_bearer_token, MELITA_API_KEY,
          token0, trace, ncalls, lns_api_key, pg_login, devices, row,
          success_count, error_count, attempts>>

config == <<registry, agility_url, credentials, dry_run, limit>>

asset_locals == <<asset_min_temp, asset_max_temp>>

device_locals == <<device, deveui, device_min_temp, device_max_temp>>

unit == <<fn, arg, ret>>

history == <<stats0, known_min, known_max, events, posts, dispatched,
             eligible>>

relations == <<related, visits>>

melita == <<melita_bearer_token, MELITA_API_KEY, token0, trace, ncalls>>

valve == <<lns_api_key, pg_login, devices, row, success_count, error_count,
           attempts>>

\* the state of the modules a run of main() does not touch
elsewhere == <<melita, valve>>

StatsInit ==
    [assets_processed |-> 0, devices_processed |-> 0, min_temp_sent |-> 0,
     max_temp_sent |-> 0, combined_sent |-> 0, min_query_sent |-> 0,
     max_query_sent |-> 0, skipped_no_deveui |-> 0,
     skipped_no_asset_temp |-> 0, skipped_empty_min_temp |-> 0,
     skipped_empty_max_temp |-> 0, errors |-> 0]

Inc(s, f) == [s EXCEPT ![f] = @ + 1]

CallsInit ==
    [login_to_thingsboard |-> 0, get_customer_assets |-> 0,
     get_asset_attributes |-> 0, get_asset_devices |-> 0,
     extract_deveui |-> 0, get_device_attributes |-> 0]

\* no device is under visit
NoDevice == [t |-> "nodevice"]

\* no function is called on its own
NoCall == [t |-> "nocall"]

\* what the current device's history holds: a row of the run log, a request
\* given to the transport (with whether it was accepted), a dry-run send
Row(label) == [k |-> "row", label |-> label, payload |-> NoPayload, ok |-> TRUE]

Post(payload, ok) == [k |-> "post", label |-> "", payload |-> payload, ok |-> ok]

Dry(payload) == [k |-> "dry", label |-> "", payload |-> payload, ok |-> TRUE]

\* melita.py as it is loaded (lines 25-28), no call made
MelitaUnused ==
    /\ melita_bearer_token = None
    /\ MELITA_API_KEY = FALSE
    /\ token0 = None
    /\ trace = <<>>
    /\ ncalls = 0

\* check_valvePosition.py not run
ValveUnused ==
    /\ lns_api_key = FALSE
    /\ pg_login = FALSE
    /\ devices = <<>>
    /\ row = 0
    /\ success_count = 0
    /\ error_count = 0
    /\ attempts = <<>>

\* nothing of main() has run
Fresh ==
    /\ num_assets = 0
    /\ ai = 0
    /\ num_devices = 0
    /\ di = 0
    /\ asset_min_temp = None
    /\ asset_max_temp = None
    /\ device = NoDevice
    /\ deveui = FALSE
    /\ device_min_temp = None
    /\ device_max_temp = None
    /\ devices_processed_count = 0
    /\ limit_reached = FALSE
    /\ stats = StatsInit
    /\ logged_in = FALSE
    /\ calls = CallsInit
    /\ asset_fetched = "none"
    /\ stats0 = StatsInit
    /\ known_min = None
    /\ known_max = None
    /\ events = <<>>
    /\ posts = 0
    /\ dispatched = 0
    /\ eligible = 0
    /\ related = [j \in 1..MaxDevices |-> 0]
    /\ visits = [j \in 1..MaxDevices |-> 0]

Init ==
    /\ pc = "start"
    /\ registry \in {"varied", "uniform"}
    /\ agility_url \in BOOLEAN
    /\ credentials \in BOOLEAN
    /\ dry_run \in BOOLEAN
    /\ limit \in LimitVals
    /\ fn = "main"
    /\ arg = NoCall
    /\ ret = <<>>
    /\ Fresh
    /\ MelitaUnused
    /\ ValveUnused

(* ------------------------ the transport (478-529) --------------------- *)
\* One call of send_downlink_to_agility: its result and what it did.
\* `resp` is the transport's answer, used in live mode only.
send_downlink_to_agility_retry(payload_hex, resp) ==
    IF ~agility_url THEN [ok |-> FALSE, ev |-> <<>>]
    ELSE IF dry_run THEN [ok |-> TRUE, ev |-> <<Dry(payload_hex)>>]
    ELSE IF resp \in AcceptedStatus
         THEN [ok |-> TRUE, ev |-> <<Post(payload_hex, TRUE)>>]
         ELSE [ok |-> FALSE,
               ev |-> <<Post(payload_hex, FALSE), Post(payload_hex, FALSE)>>]

send_downlink_to_agility_live(payload_hex, resp) ==
    IF ~agility_url THEN [ok |-> FALSE, ev |-> <<>>]
    ELSE [ok |-> resp \in AcceptedStatus,
          ev |-> <<Post(payload_hex, resp \in AcceptedStatus)>>]

send_downlink_to_agility(payload_hex, resp) ==
    IF ~agility_url THEN [ok |-> FALSE, ev |-> <<>>]
    ELSE IF dry_run THEN [ok |-> TRUE, ev |-> <<Dry(payload_hex)>>]
    ELSE [ok |-> resp \in AcceptedStatus,
          ev |-> <<Post(payload_hex, resp \in AcceptedStatus)>>]

NumPosts(ev) == Cardinality({i \in 1..Len(ev) : ev[i].k = "post"})

(* ------------------------- main(): start-up --------------------------- *)
\* lines 584-597: missing configuration ends the run
CheckConfig_url_only ==
    /\ pc = "start"
    /\ pc' = IF agility_url THEN "login" ELSE "exit_1"
    /\ UNCHANGED <<config, unit, elsewhere, relations,
                   num_assets, ai, num_devices, di, asset_locals,
                   device_locals, devices_processed_count, limit_reached,
                   stats, history, logged_in, calls, asset_fetched>>

CheckConfig ==
    /\ pc = "start"
    /\ pc' = IF agility_url /\ credentials THEN "login" ELSE "exit_1"
    /\ UNCHANGED <<config, unit, elsewhere, relations,
                   num_assets, ai, num_devices, di, asset_locals,
                   device_locals, devices_processed_count, limit_reached,
                   stats, history, logged_in, calls, asset_fetched>>

\* lines 612-617: login_to_thingsboard() succeeds or fails
Login ==
    /\ pc = "login"
    /\ \E ok \in BOOLEAN :
          /\ logged_in' = ok
          /\ pc' = IF ok THEN "list_assets" ELSE "exit_1"
    /\ calls' = Inc(calls, "login_to_thingsboard")
    /\ UNCHANGED <<config, unit, elsewhere, relations,
                   num_assets, ai, num_devices, di, asset_locals,
                   device_locals, devices_processed_count, limit_reached,
                   stats, history, asset_fetched>>

\* lines 619-654: get_customer_assets(); no asset ends the run
ListAssets ==
    /\ pc = "list_assets"
    /\ \E n \in 0..MaxAssets :
          /\ num_assets' = n
          /\ pc' = IF n = 0 THEN "exit_1" ELSE "asset"
    /\ ai' = 0
    /\ stats' = StatsInit
    /\ stats0' = StatsInit
    /\ devices_processed_count' = 0
    /\ limit_reached' = FALSE
    /\ calls' = Inc(calls, "get_customer_assets")
    /\ UNCHANGED <<config, unit, elsewhere, relations,
                   num_devices, di, asset_locals, device_locals,
                   known_min, known_max, events, posts, dispatched, eligible,
                   logged_in, asset_fetched>>

\* lines 228-249, 683: get_asset_devices returns every device the asset's
\* relations name, and the loop passes over each, whether or not an
\* earlier asset named it.  In the uniform registry the j-th relation of
\* every asset names the same device j; in the varied one every relation
\* names a device of its own, which is not followed.
Relate(n) ==
    IF registry = "uniform"
    THEN [j \in 1..MaxDevices |-> related[j] + (IF j <= n THEN 1 ELSE 0)]
    ELSE related

Visit ==
    IF registry = "uniform" THEN [visits EXCEPT ![di + 1] = @ + 1] ELSE visits

(* ---------------------- main(): the asset loop ------------------------ *)
\* line 656 exhausted, or lines 658-659: break
AssetsDone ==
    /\ pc = "asset"
    /\ ai = num_assets \/ limit_reached
    /\ pc' = "summary"
    /\ asset_fetched' = "none"
    /\ UNCHANGED <<config, unit, elsewhere, relations,
                   num_assets, ai, num_devices, di, asset_locals,
                   device_locals, devices_processed_count, limit_reached,
                   stats, history, logged_in, calls>>

\* lines 661-672: the asset carries neither minTemp nor maxTemp
AssetSkipped_counted ==
    /\ pc = "asset"
    /\ ai < num_assets /\ ~limit_reached
    /\ asset_min_temp' = None
    /\ asset_max_temp' = None
    /\ stats' = Inc(Inc(stats, "skipped_no_asset_temp"), "assets_processed")
    /\ stats0' = stats'
    /\ ai' = ai + 1
    /\ calls' = Inc(calls, "get_asset_attributes")
    /\ asset_fetched' = "neither"
    /\ UNCHANGED <<pc, config, unit, elsewhere, relations,
                   num_assets, num_devices, di, device_locals,
                   devices_processed_count, limit_reached, known_min,
                   known_max, events, posts, dispatched, eligible, logged_in>>

AssetSkipped ==
    /\ pc = "asset"
    /\ ai < num_assets /\ ~limit_reached
    /\ asset_min_temp' = None
    /\ asset_max_temp' = None
    /\ stats' = Inc(stats, "skipped_no_asset_temp")
    /\ stats0' = stats'
    /\ ai' = ai + 1
    /\ calls' = Inc(calls, "get_asset_attributes")
    /\ asset_fetched' = "neither"
    /\ UNCHANGED <<pc, config, unit, elsewhere, relations,
                   num_assets, num_devices, di, device_locals,
                   devices_processed_count, limit_reached, known_min,
                   known_max, events, posts, dispatched, eligible, logged_in>>

\* lines 661-683: the asset is processed and its devices are fetched
AssetProcessed ==
    /\ pc = "asset"
    /\ ai < num_assets /\ ~limit_reached
    /\ \E amin \in AssetMinVals(registry), amax \in AssetMaxVals(registry),
          n \in 0..MaxDevices :
          /\ ~(IsNone(amin) /\ IsNone(amax))
          /\ eligible + n <= RunDevices(registry)
          /\ num_devices' = n
          /\ eligible' = eligible + n
          /\ related' = Relate(n)
          /\ IF n = 0                      \* `if not devices: continue`
             THEN /\ pc' = "asset"
                  /\ ai' = ai + 1
                  /\ asset_min_temp' = None
                  /\ asset_max_temp' = None
             ELSE /\ pc' = "device"
                  /\ ai' = ai
                  /\ asset_min_temp' = amin
                  /\ asset_max_temp' = amax
    /\ stats' = Inc(stats, "assets_processed")
    /\ stats0' = stats'
    /\ di' = 0
    /\ calls' = Inc(Inc(calls, "get_asset_attributes"), "get_asset_devices")
    /\ asset_fetched' = "some"
    /\ UNCHANGED visits
    /\ UNCHANGED <<config, unit, elsewhere,
                   num_assets, device_locals,
                   devices_processed_count, limit_reached, known_min,
                   known_max, events, posts, dispatched, logged_in>>

(* ---------------------- main(): the device loop ----------------------- *)
\* lines 710-713: "" and 0 count as None
Normalise_keep_zero(v) == IF v.t = "str" /\ v.s = "" THEN None ELSE v

Normalise(v) == IF IsEmptyOrZero(v) THEN None ELSE v

\* lines 729-730
Needs_always(asset_temp, device_temp) == ~IsNone(asset_temp)

Needs_unknown_only(asset_temp, device_temp) ==
    ~IsNone(asset_temp) /\ IsNone(device_temp)

Needs(asset_temp, device_temp) ==
    ~IsNone(asset_temp) /\ (IsNone(device_temp) \/ device_temp # asset_temp)

\* lines 739-746, 760, 777, 820: the branch the device takes, given the
\* asset's values and the device's normalised values
Branch_never_combined(amin, amax, dmin, dmax) ==
    IF Needs(amin, dmin) /\ Needs(amax, dmax) THEN "mixed" ELSE "single"

Branch(amin, amax, dmin, dmax) ==
    IF Needs(amin, dmin) /\ Needs(amax, dmax)
    THEN IF IsNone(dmin) /\ IsNone(dmax) THEN "combined_query"
         ELSE IF ~IsNone(dmin) /\ ~IsNone(dmax) THEN "combined_set"
         ELSE "mixed"
    ELSE "single"

\* The locals of a loop body are dead once the iteration ends: each is
\* assigned again (lines 666-667, 697, 706-707) before it is next read.
\* The model sets a dead local back to its initial value.
AssetLocalsDead == asset_min_temp' = None /\ asset_max_temp' = None

DeviceLocalsDead ==
    /\ device' = NoDevice
    /\ deveui' = FALSE
    /\ device_min_temp' = None
    /\ device_max_temp' = None

\* line 683 exhausted: on to the next asset
DevicesDone ==
    /\ pc = "device"
    /\ di = num_devices
    /\ pc' = "asset"
    /\ ai' = ai + 1
    /\ AssetLocalsDead
    /\ asset_fetched' = "none"
    /\ UNCHANGED <<config, unit, elsewhere, relations,
                   num_assets, num_devices, di, device_locals,
                   devices_processed_count, limit_reached, stats, history,
                   logged_in, calls>>

\* line 685: the cap applies
LimitHit == Truthy(limit) /\ devices_processed_count >= limit.q

\* lines 685-688: break out of the device loop
LimitBreak ==
    /\ pc = "device"
    /\ di < num_devices
    /\ LimitHit
    /\ limit_reached' = TRUE
    /\ pc' = "asset"
    /\ ai' = ai + 1
    /\ AssetLocalsDead
    /\ asset_fetched' = "none"
    /\ UNCHANGED <<config, unit, elsewhere, relations,
                   num_assets, num_devices, di, device_locals,
                   devices_processed_count, stats, history, logged_in, calls>>

\* lines 690-702: the device has no DevEUI and is skipped
DeviceNoDevEUI ==
    /\ pc = "device"
    /\ di < num_devices
    /\ ~LimitHit
    /\ \E d \in DeviceShapes(registry) \cap WithoutDevEUI : device' = d
    /\ devices_processed_count' = devices_processed_count + 1
    /\ deveui' = FALSE
    /\ stats' = Inc(Inc(stats, "devices_processed"), "skipped_no_deveui")
    /\ calls' = Inc(calls, "extract_deveui")
    /\ events' = <<Row("Kein DevEUI")>>
    /\ pc' = "device_end"
    /\ visits' = Visit
    /\ UNCHANGED related
    /\ UNCHANGED <<config, unit, elsewhere,
                   num_assets, ai, num_devices, di, asset_locals,
                   device_min_temp, device_max_temp, limit_reached, stats0,
                   known_min, known_max, posts, dispatched, eligible,
                   logged_in, asset_fetched>>

\* lines 690-697: extract_deveui raises; nothing in main() catches it, the
\* run ends with a traceback
DeviceRaises ==
    /\ pc = "device"
    /\ di < num_devices
    /\ ~LimitHit
    /\ \E d \in DeviceShapes(registry) \cap Raising : device' = d
    /\ devices_processed_count' = devices_processed_count + 1
    /\ stats' = Inc(stats, "devices_processed")
    /\ calls' = Inc(calls, "extract_deveui")
    /\ pc' = "traceback"
    /\ visits' = Visit
    /\ UNCHANGED related
    /\ UNCHANGED <<config, unit, elsewhere,
                   num_assets, ai, num_devices, di, asset_locals,
                   deveui, device_min_temp, device_max_temp, limit_reached,
                   stats0, known_min, known_max, events, posts, dispatched,
                   eligible, logged_in, asset_fetched>>

\* What the body of the device loop has done so far: the counters, the
\* rows and sends, and the number of frames given to the send function.
\* lines 693-722: the device is counted, empty asset values are reported
Prologue_once_per_device ==
    LET s1 == IF visits[di + 1] = 0 THEN Inc(stats, "devices_processed")
              ELSE stats
        s2 == IF IsNone(asset_min_temp)
              THEN Inc(s1, "skipped_empty_min_temp") ELSE s1
        s3 == IF IsNone(asset_max_temp)
              THEN Inc(s2, "skipped_empty_max_temp") ELSE s2
    IN  [stats |-> s3,
         events |-> (IF IsNone(asset_min_temp)
                     THEN <<Row("Asset minTemp leer")>> ELSE <<>>)
                 \o (IF IsNone(asset_max_temp)
                     THEN <<Row("Asset maxTemp leer")>> ELSE <<>>),
         sent |-> 0]

Prologue_uncounted ==
    LET s1 == stats
        s2 == IF IsNone(asset_min_temp)
              THEN Inc(s1, "skipped_empty_min_temp") ELSE s1
        s3 == IF IsNone(asset_max_temp)
              THEN Inc(s2, "skipped_empty_max_temp") ELSE s2
    IN  [stats |-> s3,
         events |-> (IF IsNone(asset_min_temp)
                     THEN <<Row("Asset minTemp leer")>> ELSE <<>>)
                 \o (IF IsNone(asset_max_temp)
                     THEN <<Row("Asset maxTemp leer")>> ELSE <<>>),
         sent |-> 0]

Prologue ==
    LET s1 == Inc(stats, "devices_processed")
        s2 == IF IsNone(asset_min_temp)
              THEN Inc(s1, "skipped_empty_min_temp") ELSE s1
        s3 == IF IsNone(asset_max_temp)
              THEN Inc(s2, "skipped_empty_max_temp") ELSE s2
    IN  [stats |-> s3,
         events |-> (IF IsNone(asset_min_temp)
                     THEN <<Row("Asset minTemp leer")>> ELSE <<>>)
                 \o (IF IsNone(asset_max_temp)
                     THEN <<Row("Asset maxTemp leer")>> ELSE <<>>),
         sent |-> 0]

\* lines 746-758: both known values are unknown, one frame BDBF
CombinedQueryBlock(o, resp) ==
    LET payload == combine_query_payloads
        r == send_downlink_to_agility(payload, resp)
    IN  [stats |-> IF r.ok
                   THEN Inc(Inc(Inc(o.stats, "min_query_sent"),
                                "max_query_sent"), "combined_sent")
                   ELSE Inc(o.stats, "errors"),
         events |-> o.events \o <<Row("Query Min/Max Temp")>> \o r.ev
                    \o (IF r.ok THEN <<>> ELSE <<Row("Fehler Query Min/Max")>>),
         sent |-> o.sent + 1]

\* lines 760-776: both known values are present, one frame set + BDBF
CombinedSetBlock(o, amin, amax, resp) ==
    LET payload == combine_temperature_payloads(amin, amax)
        r == send_downlink_to_agility(payload \o combine_query_payloads, resp)
    IN  IF payload # NoPayload
        THEN [stats |-> IF r.ok
                        THEN Inc(Inc(Inc(o.stats, "min_temp_sent"),
                                     "max_temp_sent"), "combined_sent")
                        ELSE Inc(o.stats, "errors"),
              events |-> o.events \o <<Row("Set Min/Max")>> \o r.ev
                         \o (IF r.ok THEN <<>> ELSE <<Row("Fehler Min/Max")>>),
              sent |-> o.sent + 1]
        ELSE o

\* lines 780-798 and 823-841 (min), 801-819 and 844-862 (max): one field
\* sent on its own; the counter is raised before the send, the row is
\* written after it.
FieldBlock(o, is_min, asset_temp, device_temp, resp) ==
    IF ~Needs(asset_temp, device_temp) THEN o
    ELSE LET is_query == IsNone(device_temp)
             payload == IF is_query THEN get_query_payload(is_min)
                        ELSE temperature_to_hex_payload(asset_temp, is_min)
             counter == IF is_query
                        THEN (IF is_min THEN "min_query_sent"
                              ELSE "max_query_sent")
                        ELSE (IF is_min THEN "min_temp_sent"
                              ELSE "max_temp_sent")
             action == IF is_query
                       THEN (IF is_min THEN "Query Min Temp"
                             ELSE "Query Max Temp")
                       ELSE (IF is_min THEN "Set Min Temp"
                             ELSE "Set Max Temp")
             r == send_downlink_to_agility(payload, resp)
         IN  IF payload # NoPayload
             THEN [stats |-> IF r.ok THEN Inc(o.stats, counter)
                             ELSE Inc(Inc(o.stats, counter), "errors"),
                   events |-> o.events \o r.ev
                              \o <<Row(IF r.ok THEN action
                                       ELSE IF is_min THEN "Fehler Min"
                                       ELSE "Fehler Max")>>,
                   sent |-> o.sent + 1]
             ELSE [o EXCEPT !.stats = Inc(o.stats, counter)]

\* the transport answers only when it is asked
Answers(asked) == IF asked THEN Responses ELSE {"200"}

\* lines 690-862: one device with a DevEUI, from its attributes to its sends.
\* b is the branch taken at lines 739-820; o0, o1, o2 are the counters and
\* the history before the sends, after the first and after the second.
DeviceBody ==
    /\ pc = "device"
    /\ di < num_devices
    /\ ~LimitHit
    /\ \E d \in DeviceShapes(registry) \cap WithDevEUI : device' = d
    /\ devices_processed_count' = devices_processed_count + 1
    /\ deveui' = TRUE
    /\ calls' = Inc(Inc(calls, "extract_deveui"), "get_device_attributes")
    /\ \E dmin \in DeviceMinVals(registry), dmax \in DeviceMaxVals(registry) :
       \E nmin \in {Normalise(dmin)}, nmax \in {Normalise(dmax)} :
       \E b \in {IF IsNone(asset_min_temp) /\ IsNone(asset_max_temp)
                 THEN "continue"                      \* lines 725-726
                 ELSE Branch(asset_min_temp, asset_max_temp, nmin, nmax)} :
       \E resp1 \in Answers(b \in {"combined_query", "combined_set"}
                            \/ (b \in {"mixed", "single"}
                                /\ Needs(asset_min_temp, nmin))),
          resp2 \in Answers(b \in {"mixed", "single"}
                            /\ Needs(asset_max_temp, nmax)) :
       \E o0 \in {Prologue} :
       \E o1 \in {IF b = "combined_query" THEN CombinedQueryBlock(o0, resp1)
                  ELSE IF b = "combined_set"
                  THEN CombinedSetBlock(o0, asset_min_temp, asset_max_temp,
                                        resp1)
                  ELSE IF b \in {"mixed", "single"}
                  THEN FieldBlock(o0, TRUE, asset_min_temp, nmin, resp1)
                  ELSE o0} :
       \E o2 \in {IF b \in {"mixed", "single"}
                  THEN FieldBlock(o1, FALSE, asset_max_temp, nmax, resp2)
                  ELSE o1} :
          /\ known_min' = dmin
          /\ known_max' = dmax
          /\ device_min_temp' = nmin
          /\ device_max_temp' = nmax
          /\ stats' = o2.stats
          /\ events' = o2.events
          /\ dispatched' = dispatched + o2.sent
          /\ posts' = posts + NumPosts(o2.events)
    /\ pc' = "device_end"
    /\ visits' = Visit
    /\ UNCHANGED related
    /\ UNCHANGED <<config, unit, elsewhere,
                   num_assets, ai, num_devices, di, asset_locals,
                   limit_reached, stats0, eligible, logged_in, asset_fetched>>

\* the end of the loop body, or a `continue`: the next device
DeviceEnd ==
    /\ pc = "device_end"
    /\ di' = di + 1
    /\ pc' = "device"
    /\ stats0' = stats
    /\ events' = <<>>
    /\ known_min' = None
    /\ known_max' = None
    /\ DeviceLocalsDead
    /\ UNCHANGED <<config, unit, elsewhere, relations,
                   num_assets, ai, num_devices, asset_locals,
                   devices_processed_count, limit_reached, stats, posts,
                   dispatched, eligible, logged_in, calls, asset_fetched>>

\* lines 864-891: the summary is printed and the run ends
Summary ==
    /\ pc = "summary"
    /\ pc' = "done"
    /\ UNCHANGED <<config, unit, elsewhere, relations,
                   num_assets, ai, num_devices, di, asset_locals,
                   device_locals, devices_processed_count, limit_reached,
                   stats, history, logged_in, calls, asset_fetched>>

Next ==
    \/ CheckConfig
    \/ Login
    \/ ListAssets
    \/ AssetsDone
    \/ AssetSkipped
    \/ AssetProcessed
    \/ DevicesDone
    \/ LimitBreak
    \/ DeviceNoDevEUI
    \/ DeviceRaises
    \/ DeviceBody
    \/ DeviceEnd
    \/ Summary

Spec == Init /\ [][Next]_vars

(* ================== the functions called on their own ================= *)
\* Each function of the module is called once on an input drawn from a
\* bounded set; normalize_deveui is then called again on its own result.
\* temperatures from -MaxFrost to MaxTemperature degrees, in quarter degrees
MaxFrost == 2

MaxTemperature == 130

TemperatureInputs ==
    {[temperature |-> v, is_min |-> b] :
        v \in {None, Str("abc")}
               \cup {Num(q) : q \in (-4 * MaxFrost)..(4 * MaxTemperature)},
        b \in BOOLEAN}

\* sixteen hex digits, written in several ways, and texts that are none
DevEUITexts ==
    LET lower == <<"a", "a", "b", "b", "c", "c", "d", "d",
                   "1", "1", "2", "2", "3", "3", "4", "4">>
        colons == <<"A", "A", ":", "B", "B", ":", "C", "C", ":", "D", "D", ":",
                    "1", "1", ":", "2", "2", ":", "3", "3", ":", "4", "4">>
        spaced == <<"a", "a", "b", "b", "-", "c", "c", "d", "d", " ",
                    "1", "1", "2", "2", "-", "3", "3", "4", "4">>
        inside == <<"A", "A", "B", "B", "e", "u", "i", "-", "C", "C", "D", "D",
                    "1", "1", "2", "2", "3", "3", "4", "4">>
        bodies == {lower, Upper(lower), colons, spaced, inside,
                   SubSeq(lower, 1, 15), lower \o <<"5">>,
                   SubSeq(lower, 1, 15) \o <<"g">>,
                   <<"s", "h", "o", "r", "t", "1", "2", "3">>, <<>>}
        prefixes == {<<>>, <<"E", "U", "I", "-">>, <<"e", "u", "i", "-">>,
                     <<"E", "U", "I", "_">>, <<"E", "u", "i", "_">>,
                     <<" ">>, <<"\t">>}
        suffixes == {<<>>, <<" ">>, <<"\n">>}
    IN  {p \o b \o x : p \in prefixes, b \in bodies, x \in suffixes}

DevEUIInputs == {None} \cup {Txt(c) : c \in DevEUITexts}

\* device objects whose candidates, where valid, are all different
DeviceInputs ==
    LET key(c) == IF c = "d" THEN <<"d", "e", "v", "e", "u", "i">>
                  ELSE IF c = "D" THEN <<"D", "e", "v", "E", "U", "I">>
                  ELSE IF c = "E" THEN <<"E", "U", "I">>
                  ELSE <<"s", "e", "r", "i", "a", "l">>
        lookups == {<<FALSE, <<Attr(key("d"), Txt(Eui("A")))>> >>,
                    <<TRUE, <<>> >>,
                    <<TRUE, <<Attr(key("d"), Txt(Eui("A")))>> >>,
                    <<TRUE, <<Attr(key("s"), Txt(Eui("A")))>> >>,
                    <<TRUE, <<Attr(key("D"), Txt(<<"x">>)),
                              Attr(key("E"), Txt(Eui("B")))>> >>,
                    <<TRUE, <<Attr(key("d"), None)>> >>}
        names == {Missing, None, Txt(<<"T", "h", "1">>),
                  Txt(<<"e", "u", "i", "-">> \o Eui("C"))}
        labels == {Missing, None, Txt(<<>>), Txt(<<" ">>), Txt(Eui("D"))}
        infos == {Missing, None, Dict(EmptyDict),
                  Dict([EmptyDict EXCEPT !["devEUI"] = Txt(Eui("E"))]),
                  Dict([EmptyDict EXCEPT !["DEVEUI"] = Txt(Eui("E"))]),
                  Dict([EmptyDict EXCEPT !["eui"] = Txt(Eui("F")),
                                         !["deveui"] = Txt(<<"x">>)]),
                  Dict([EmptyDict EXCEPT !["eui"] = Txt(Eui("F")),
                                         !["DevEui"] = Txt(Eui("E"))])}
    IN  {DeviceObject(l[1], l[2], n, b, i) :
            l \in lookups, n \in names, b \in labels, i \in infos}

\* what requests.post answers in a live call
LiveResponses ==
    {"200", "201", "202", "204", "301", "404", "500",
     "Timeout", "ConnectionError"}

SendInputs ==
    {[payload_hex |-> p, resp |-> r] :
        p \in {combine_query_payloads, temperature_to_hex_payload(Deg(20), TRUE)},
        r \in LiveResponses}

(* melita.py, create_temperature_hex_payload (lines 228-267) *)
\* a Python int
PyInt(n) == [t |-> "int", q |-> n, s |-> ""]

\* ValueError and TypeError, which line 265 catches
ValueError == [t |-> "raises", e |-> "ValueError"]

TypeError == [t |-> "raises", e |-> "TypeError"]

Digits == <<"0", "1", "2", "3", "4", "5", "6", "7", "8", "9">>

IsDecimal(c) ==
    c # <<>> /\ \A i \in 1..Len(c) : IndexIn(Digits, c[i]) # 0

RECURSIVE DecimalValue(_)
DecimalValue(c) ==
    IF c = <<>> THEN 0
    ELSE 10 * DecimalValue(SubSeq(c, 1, Len(c) - 1))
         + (IndexIn(Digits, c[Len(c)]) - 1)

\* int(x), lines 235-236: a number (held in quarter units) is truncated
\* toward zero; a text is stripped and read as decimal digits with an
\* optional sign, and raises ValueError if it is anything else; None raises
\* TypeError
int(x) ==
    IF x.t = "num"
    THEN PyInt(IF x.q >= 0 THEN x.q \div 4 ELSE -((-x.q) \div 4))
    ELSE IF x.t = "txt"
    THEN LET stripped == Strip(x.c)
             signed == stripped # <<>> /\ Head(stripped) \in {"+", "-"}
             body == IF signed THEN Tail(stripped) ELSE stripped
         IN  IF ~IsDecimal(body) THEN ValueError
             ELSE IF signed /\ Head(stripped) = "-"
             THEN PyInt(-DecimalValue(body))
             ELSE PyInt(DecimalValue(body))
    ELSE TypeError

\* the largest value of one byte (lines 239, 242)
MaxByte == 255

LowerHexChars ==
    <<"0", "1", "2", "3", "4", "5", "6", "7",
      "8", "9", "a", "b", "c", "d", "e", "f">>

RECURSIVE ToLowerHex(_)
ToLowerHex(n) ==
    IF n < 16 THEN <<LowerHexChars[n + 1]>>
    ELSE ToLowerHex(n \div 16) \o <<LowerHexChars[(n % 16) + 1]>>

\* f"{n:02x}"
Format02x(n) ==
    IF n < 0 THEN <<"-">> \o ToLowerHex(-n)
    ELSE IF n < 16 THEN <<"0">> \o ToLowerHex(n)
    ELSE ToLowerHex(n)

\* line 247: operational_mode in [2, 10]
ModeActive_2_only(operational_mode) ==
    operational_mode.t = "num" /\ operational_mode.q = 4 * 2

ModeActive(operational_mode) ==
    operational_mode.t = "num" /\ operational_mode.q \in {4 * 2, 4 * 10}

create_temperature_hex_payload(min_temp, max_temp, operational_mode) ==
    LET min_temp_int == int(min_temp)
        max_temp_int == int(max_temp)
    IN  IF min_temp_int.t = "raises" \/ max_temp_int.t = "raises" THEN None
        ELSE IF min_temp_int.q < 0 \/ min_temp_int.q > MaxByte THEN None
        ELSE IF max_temp_int.q < 0 \/ max_temp_int.q > MaxByte THEN None
        ELSE Txt(<<"0", "8">> \o Format02x(min_temp_int.q)
                 \o Format02x(max_temp_int.q) \o <<"0", "d">>
                 \o (IF ModeActive(operational_mode) THEN <<"0", "2">>
                     ELSE <<"0", "0">>)
                 \o <<"1", "5", "1", "8">>)

\* temperatures given to create_temperature_hex_payload: absent, texts,
\* and numbers below, inside and above one byte
VickiTemperatures ==
    {None, Txt(<<"a", "b", "c">>), Txt(<<"2", "0">>), Txt(<<" ", "7", "\n">>),
     Txt(<<"-", "1">>), Txt(<<"2", "0", ".", "5">>), Txt(<<"2", "5", "6">>),
     Num(-5), Num(-3), Num(0), Num(4 * 20 + 2), Num(4 * MaxByte + 3),
     Num(4 * (MaxByte + 1))}

VickiModes == {None, Num(0), Num(4 * 2), Num(4 * 2 + 1), Num(4 * 10),
               Txt(<<"2">>)}

VickiInputs ==
    {[min_temp |-> a, max_temp |-> b, operational_mode |-> m] :
        a \in VickiTemperatures, b \in VickiTemperatures, m \in VickiModes}

Functions ==
    {"temperature_to_hex_payload", "normalize_deveui", "extract_deveui",
     "send_downlink_to_agility", "create_temperature_hex_payload"}

Inputs(f) ==
    IF f = "temperature_to_hex_payload" THEN TemperatureInputs
    ELSE IF f = "normalize_deveui" THEN DevEUIInputs
    ELSE IF f = "extract_deveui" THEN DeviceInputs
    ELSE IF f = "create_temperature_hex_payload" THEN VickiInputs
    ELSE SendInputs

UnitInit ==
    /\ pc = "call"
    /\ fn \in Functions
    /\ arg \in Inputs(fn)
    /\ ret = <<>>
    /\ registry = "uniform"
    /\ credentials = TRUE
    /\ limit = None
    /\ agility_url \in (IF fn = "send_downlink_to_agility" THEN BOOLEAN
                         ELSE {TRUE})
    /\ dry_run \in (IF fn = "send_downlink_to_agility" THEN BOOLEAN
                     ELSE {FALSE})
    /\ Fresh
    /\ MelitaUnused
    /\ ValveUnused

\* the state of sync_asset_temperature_to_devices.py
sync_vars ==
    <<config, num_assets, ai, num_devices, di, asset_locals, device_locals,
      devices_processed_count, limit_reached, stats, history, logged_in,
      calls, asset_fetched, relations>>

main_vars == <<sync_vars, elsewhere>>

Call_temperature_to_hex_payload ==
    /\ pc = "call" /\ fn = "temperature_to_hex_payload"
    /\ ret' = <<temperature_to_hex_payload(arg.temperature, arg.is_min)>>
    /\ pc' = "returned"
    /\ UNCHANGED <<main_vars, fn, arg>>

Call_normalize_deveui ==
    /\ pc = "call" /\ fn = "normalize_deveui"
    /\ ret' = <<normalize_deveui(arg)>>
    /\ pc' = "returned"
    /\ UNCHANGED <<main_vars, fn, arg>>

\* the result, when it is a DevEUI, is normalised once more
Call_normalize_deveui_again ==
    /\ pc = "returned" /\ fn = "normalize_deveui"
    /\ Len(ret) = 1 /\ ret[1] # None
    /\ ret' = Append(ret, normalize_deveui(ret[1]))
    /\ UNCHANGED <<main_vars, pc, fn, arg>>

Call_extract_deveui ==
    /\ pc = "call" /\ fn = "extract_deveui"
    /\ ret' = <<extract_deveui(arg)>>
    /\ pc' = "returned"
    /\ UNCHANGED <<main_vars, fn, arg>>

Call_send_downlink_to_agility ==
    /\ pc = "call" /\ fn = "send_downlink_to_agility"
    /\ ret' = <<send_downlink_to_agility(arg.payload_hex, arg.resp)>>
    /\ pc' = "returned"
    /\ UNCHANGED <<main_vars, fn, arg>>

Call_create_temperature_hex_payload ==
    /\ pc = "call" /\ fn = "create_temperature_hex_payload"
    /\ ret' = <<create_temperature_hex_payload(arg.min_temp, arg.max_temp,
                                               arg.operational_mode)>>
    /\ pc' = "returned"
    /\ UNCHANGED <<main_vars, fn, arg>>

UnitNext ==
    \/ Call_temperature_to_hex_payload
    \/ Call_normalize_deveui
    \/ Call_normalize_deveui_again
    \/ Call_extract_deveui
    \/ Call_send_downlink_to_agility
    \/ Call_create_temperature_hex_payload

UnitSpec == UnitInit /\ [][UnitNext]_vars

(* ============================= melita.py ============================== *)
\* The module holds one bearer token for the process.  Its functions are
\* called one after another, up to MaxCalls times; each call is one step,
\* which leaves the token it ends with, its result in ret and the requests
\* it made, in order, in trace.  The auth endpoint, when it issues a token,
\* issues a non-empty text, and an expiry it gives is a valid timestamp.
MaxCalls == 3

\* True and False as results
PyTrue == [t |-> "bool", q |-> 1, s |-> ""]

PyFalse == [t |-> "bool", q |-> 0, s |-> ""]

\* `if melita_bearer_token` / `if generate_melita_bearer_token()`
Held(token) == token.t = "str" /\ token.s # ""

\* the devices a call can name
DeviceEUIs == {"70B3D50000000001", "70B3D50000000002"}

\* A step of a call: a request (DELETE or POST of the device's queue) with
\* the bearer token it carried and the answer it got, or a call of
\* generate_melita_bearer_token with the answer of the auth endpoint.
Request(k, device_eui, bearer, status) ==
    [k |-> k, device_eui |-> device_eui, bearer |-> bearer, status |-> status]

\* what the result of a call is made of
Outcome(result, token, requests) ==
    [ret |-> result, token |-> token, trace |-> requests]

\* line 67: what the auth endpoint answers
AuthAnswers ==
    {"200 authToken A", "200 authToken B", "200 no authToken", "200 not JSON",
     "401", "500", "RequestException"}

\* lines 69-73: the token a 200 answer carries, if any
IssuedToken(answer) ==
    IF answer = "200 authToken A" THEN Str("A")
    ELSE IF answer = "200 authToken B" THEN Str("B")
    ELSE None

\* lines 136, 150 and 198, 209: what the queue endpoint answers
DeleteAnswers == {"200", "204", "403", "404", "RequestException"}

PostAnswers == {"200", "201", "403", "500", "RequestException"}

\* lines 52-96: the outcomes of one call, the token being `token`
generate_melita_bearer_token_forgets(token) ==
    IF ~MELITA_API_KEY
    THEN {Outcome(None, None, <<Request("generate", "", None, "no API key")>>)}
    ELSE {Outcome(IssuedToken(a), IssuedToken(a),
                  <<Request("generate", "", None, a)>>) : a \in AuthAnswers}

generate_melita_bearer_token(token) ==
    IF ~MELITA_API_KEY
    THEN {Outcome(None, token, <<Request("generate", "", None, "no API key")>>)}
    ELSE {Outcome(IssuedToken(a),
                  IF IssuedToken(a) # None THEN IssuedToken(a) ELSE token,
                  <<Request("generate", "", None, a)>>) : a \in AuthAnswers}

\* lines 148-156: the token was renewed (outcome g), the DELETE is repeated
FlushAgain_until_accepted(device_eui, before, g) ==
    UNION {IF r \in {"200", "204"}
           THEN {Outcome(PyTrue, g.token,
                         before \o g.trace
                         \o <<Request("DELETE", device_eui, g.token, r)>>)}
           ELSE {Outcome(IF r2 \in {"200", "204"} THEN PyTrue ELSE PyFalse,
                         g.token,
                         before \o g.trace
                         \o <<Request("DELETE", device_eui, g.token, r),
                              Request("DELETE", device_eui, g.token, r2)>>) :
                    r2 \in DeleteAnswers}
           : r \in DeleteAnswers}

FlushAgain(device_eui, before, g) ==
    {Outcome(IF r \in {"200", "204"} THEN PyTrue ELSE PyFalse, g.token,
             before \o g.trace
             \o <<Request("DELETE", device_eui, g.token, r)>>) :
        r \in DeleteAnswers}

\* lines 123-167
flush_melita_device_queue(token, device_eui) ==
    IF ~Held(token) THEN {Outcome(PyFalse, token, <<>>)}
    ELSE UNION {
        LET first == <<Request("DELETE", device_eui, token, r)>>
        IN  IF r \in {"200", "204"} THEN {Outcome(PyTrue, token, first)}
            ELSE IF r = "403"
            THEN UNION {IF Held(g.ret)
                        THEN FlushAgain(device_eui, first, g)
                        ELSE {Outcome(PyFalse, g.token, first \o g.trace)} :
                           g \in generate_melita_bearer_token(token)}
            ELSE {Outcome(PyFalse, token, first)}
        : r \in DeleteAnswers}

\* lines 185-226: the queue is flushed (outcome f), the message is posted
PostMessage(device_eui, f) ==
    UNION {
        LET first == f.trace \o <<Request("POST", device_eui, f.token, r)>>
        IN  IF r = "200" THEN {Outcome(PyTrue, f.token, first)}
            ELSE IF r = "403"
            THEN UNION {IF Held(g.ret)
                        THEN {Outcome(IF r2 = "200" THEN PyTrue ELSE PyFalse,
                                      g.token,
                                      first \o g.trace
                                      \o <<Request("POST", device_eui,
                                                   g.token, r2)>>) :
                                 r2 \in PostAnswers}
                        ELSE {Outcome(PyFalse, g.token, first \o g.trace)} :
                           g \in generate_melita_bearer_token(f.token)}
            ELSE {Outcome(PyFalse, f.token, first)}
        : r \in PostAnswers}

\* lines 169-226
send_melita_queue_message_unflushed(token, device_eui) ==
    IF ~Held(token) THEN {Outcome(PyFalse, token, <<>>)}
    ELSE UNION {PostMessage(device_eui, f) :
                   f \in flush_melita_device_queue(token, device_eui)}

send_melita_queue_message(token, device_eui) ==
    IF ~Held(token) THEN {Outcome(PyFalse, token, <<>>)}
    ELSE UNION {IF f.ret # PyTrue
                THEN {Outcome(PyFalse, f.token, f.trace)}
                ELSE PostMessage(device_eui, f) :
                   f \in flush_melita_device_queue(token, device_eui)}

\* lines 459-461
is_melita_connected == IF melita_bearer_token # None THEN PyTrue ELSE PyFalse

MelitaInit ==
    /\ pc = "call"
    /\ fn = "melita"
    /\ arg = NoCall
    /\ ret = <<>>
    /\ melita_bearer_token = None               \* line 28
    /\ MELITA_API_KEY \in BOOLEAN               \* line 25
    /\ token0 = None
    /\ trace = <<>>
    /\ ncalls = 0
    /\ registry = "uniform"
    /\ agility_url = TRUE
    /\ credentials = TRUE
    /\ dry_run = FALSE
    /\ limit = None
    /\ Fresh
    /\ ValveUnused

\* a call of function f on input x ends with outcome o
Called(f, x, o) ==
    /\ ncalls < MaxCalls
    /\ ncalls' = ncalls + 1
    /\ fn' = f
    /\ arg' = x
    /\ ret' = <<o.ret>>
    /\ trace' = o.trace
    /\ token0' = melita_bearer_token
    /\ melita_bearer_token' = o.token
    /\ pc' = "returned"
    /\ UNCHANGED <<sync_vars, valve, MELITA_API_KEY>>

Melita_generate_melita_bearer_token ==
    \E o \in generate_melita_bearer_token(melita_bearer_token) :
        Called("generate_melita_bearer_token", NoCall, o)

Melita_flush_melita_device_queue ==
    \E device_eui \in DeviceEUIs :
    \E o \in flush_melita_device_queue(melita_bearer_token, device_eui) :
        Called("flush_melita_device_queue", [device_eui |-> device_eui], o)

Melita_send_melita_queue_message ==
    \E device_eui \in DeviceEUIs :
    \E o \in send_melita_queue_message(melita_bearer_token, device_eui) :
        Called("send_melita_queue_message", [device_eui |-> device_eui], o)

Melita_is_melita_connected ==
    Called("is_melita_connected", NoCall,
           Outcome(is_melita_connected, melita_bearer_token, <<>>))

MelitaNext ==
    \/ Melita_generate_melita_bearer_token
    \/ Melita_flush_melita_device_queue
    \/ Melita_send_melita_queue_message
    \/ Melita_is_melita_connected

MelitaSpec == MelitaInit /\ [][MelitaNext]_vars

(* ======================== check_valvePosition.py ====================== *)
\* A run of main(): the configuration is checked, the database is
\* connected, the query returns its rows, the send loop passes over them.
MaxRows == 3

\* a row of the query, by what it holds under the three keys of line 287
ValveRow(device_id, deviceId, id) ==
    [device_id |-> device_id, deviceId |-> deviceId, id |-> id]

RowShapes ==
    {ValveRow(Txt(<<"v", "1">>), Missing, Missing),
     ValveRow(None, Txt(<<"v", "2">>), Missing),
     ValveRow(Missing, Missing, PyInt(7)),
     ValveRow(Missing, Missing, Missing),
     ValveRow(Txt(<<>>), None, PyInt(0))}

RECURSIVE RowLists(_)
RowLists(n) ==
    IF n = 0 THEN {<<>>}
    ELSE RowLists(n - 1)
         \cup {Append(l, r) : l \in {x \in RowLists(n - 1) : Len(x) = n - 1},
                              r \in RowShapes}

\* device.get(key)
RowGet(device_row, key) ==
    IF device_row[key] = Missing THEN None ELSE device_row[key]

\* `not x` for what a row holds
NoId(x) == x = None \/ x = Txt(<<>>) \/ x = PyInt(0)

\* line 287: a or b or c
FirstId(device_row) ==
    IF ~NoId(RowGet(device_row, "device_id")) THEN RowGet(device_row, "device_id")
    ELSE IF ~NoId(RowGet(device_row, "deviceId"))
    THEN RowGet(device_row, "deviceId")
    ELSE RowGet(device_row, "id")

\* what the send loop did with a row: nothing, a dry run, a request
Attempt(device_id, sent, ok) == [device_id |-> device_id, sent |-> sent, ok |-> ok]

\* lines 170-222: the result of send_downlink and what it did
send_downlink_dry_posts(device_id, api_key, dry, resp) ==
    IF ~api_key THEN Attempt(device_id, "none", FALSE)
    ELSE Attempt(device_id, "post", resp \in {"200", "201", "202"})

send_downlink(device_id, api_key, dry, resp) ==
    IF ~api_key THEN Attempt(device_id, "none", FALSE)
    ELSE IF dry THEN Attempt(device_id, "dry", TRUE)
    ELSE Attempt(device_id, "post", resp \in {"200", "201", "202"})

ValveInit ==
    /\ pc = "start"
    /\ fn = "check_valvePosition"
    /\ arg = NoCall
    /\ ret = <<>>
    /\ lns_api_key \in BOOLEAN
    /\ pg_login \in BOOLEAN
    /\ dry_run \in BOOLEAN
    /\ devices = <<>>
    /\ row = 0
    /\ success_count = 0
    /\ error_count = 0
    /\ attempts = <<>>
    /\ registry = "uniform"
    /\ agility_url = TRUE
    /\ credentials = TRUE
    /\ limit = None
    /\ Fresh
    /\ MelitaUnused

\* lines 235-242
ValveCheckConfig ==
    /\ pc = "start"
    /\ pc' = IF lns_api_key /\ pg_login THEN "connect" ELSE "exit_1"
    /\ UNCHANGED <<sync_vars, melita, unit, valve>>

\* lines 246-256: the connection is made, or not
ValveConnect ==
    /\ pc = "connect"
    /\ \E conn \in BOOLEAN : pc' = IF conn THEN "query" ELSE "exit_1"
    /\ UNCHANGED <<sync_vars, melita, unit, valve>>

\* lines 265-284: the rows of the query; none ends the run
ValveQuery ==
    /\ pc = "query"
    /\ \E rows \in RowLists(MaxRows) :
          /\ devices' = rows
          /\ pc' = IF rows = <<>> THEN "closed" ELSE "send"
    /\ success_count' = 0
    /\ error_count' = 0
    /\ UNCHANGED <<sync_vars, melita, unit, lns_api_key, pg_login, row,
                   attempts>>

\* lines 286-297: one pass of the send loop
ValveSendRow ==
    /\ pc = "send"
    /\ row < Len(devices)
    /\ \E device_id \in {FirstId(devices[row + 1])} :
       \E resp \in (IF NoId(device_id) \/ dry_run THEN {"200"}
                    ELSE {"200", "202", "204", "500", "RequestException"}) :
       \E a \in {IF NoId(device_id) THEN Attempt(device_id, "none", FALSE)
                  ELSE send_downlink(device_id, lns_api_key, dry_run, resp)} :
          /\ attempts' = Append(attempts, a)
          /\ success_count' = success_count + (IF a.ok THEN 1 ELSE 0)
          /\ error_count' = error_count + (IF a.ok THEN 0 ELSE 1)
    /\ row' = row + 1
    /\ UNCHANGED <<sync_vars, melita, unit, pc, lns_api_key, pg_login,
                   devices>>

\* lines 299-313: the summary, and the connection is closed
ValveSummary ==
    /\ pc = "send"
    /\ row = Len(devices)
    /\ pc' = "closed"
    /\ UNCHANGED <<sync_vars, melita, unit, valve>>

ValveNext ==
    \/ ValveCheckConfig
    \/ ValveConnect
    \/ ValveQuery
    \/ ValveSendRow
    \/ ValveSummary

ValveSpec == ValveInit /\ [][ValveNext]_vars

(* ======================= properties of the run ======================== *)
\* the frames given to send_downlink_to_agility for the current device
Sends == SelectSeq(events, LAMBDA e : e.k # "row")

Frames == [i \in 1..Len(Sends) |-> Sends[i].payload]

Delta(f) == stats[f] - stats0[f]

\* the current device has been dealt with and had a valid identifier
Handled == pc = "device_end" /\ deveui

Present(v) == ~IsNone(v)

\* a known value is unknown when absent, "" or 0
Unknown(v) == IsNone(v) \/ IsEmptyOrZero(v)

Numeric(v) == v.t = "num"

\* the field needs action: desired present, known unknown or different
FieldNeeds(desired, known) ==
    Present(desired) /\ (Unknown(known) \/ known # desired)

BDBF == <<"B", "D", "B", "F">>

\* the single frame a field is due: its query opcode while the known value
\* is unknown, else the value-set of the desired value
QueryFrame(is_min) == IF is_min THEN <<"B", "D">> ELSE <<"B", "F">>

SetFrame(is_min, desired) ==
    (IF is_min THEN <<"3", "E">> ELSE <<"4", "0">>)
        \o Format02X(IntTimes2(desired.q))

FieldFrame(is_min, desired, known) ==
    IF Unknown(known) THEN QueryFrame(is_min) ELSE SetFrame(is_min, desired)

\* the field's frame can be built: a query always, a set of a number only
Buildable(desired, known) == Unknown(known) \/ Numeric(desired)

(* C1: a device with a valid identifier, both desired setpoints present    *)
(* and both known values unknown gets exactly one frame, BDBF; when the    *)
(* send succeeds min_query_sent, max_query_sent and combined_sent each     *)
(* grow by one and min_temp_sent, max_temp_sent stay.                      *)
C1_Case ==
    /\ Handled
    /\ Present(asset_min_temp) /\ Present(asset_max_temp)
    /\ Unknown(known_min) /\ Unknown(known_max)

C1_CombinedQuery ==
    C1_Case =>
        /\ Frames = <<BDBF>>
        /\ Sends[1].ok =>
              /\ Delta("min_query_sent") = 1
              /\ Delta("max_query_sent") = 1
              /\ Delta("combined_sent") = 1
              /\ Delta("min_temp_sent") = 0
              /\ Delta("max_temp_sent") = 0

C1_Witness ==
    /\ C1_Case
    /\ known_min = Deg(0) /\ known_max = Str("")
    /\ Len(Sends) = 1 /\ Sends[1].k = "post" /\ Sends[1].ok

(* C2: a device whose known min and max are both present and both differ   *)
(* from the numeric desired min and max gets exactly one frame, the set of *)
(* min, the set of max, then BDBF (18/24 against 20/25: 3E284032BDBF);     *)
(* when the send succeeds min_temp_sent, max_temp_sent and combined_sent   *)
(* each grow by one and the query counters stay.                           *)
C2_Case ==
    /\ Handled
    /\ Numeric(asset_min_temp) /\ Numeric(asset_max_temp)
    /\ ~Unknown(known_min) /\ ~Unknown(known_max)
    /\ known_min # asset_min_temp /\ known_max # asset_max_temp

C2_Example ==
    /\ asset_min_temp = Deg(20) /\ asset_max_temp = Deg(25)
    /\ known_min = Deg(18) /\ known_max = Deg(24)

C2_CombinedSet ==
    C2_Case =>
        /\ Frames = <<SetFrame(TRUE, asset_min_temp)
                      \o SetFrame(FALSE, asset_max_temp) \o BDBF>>
        /\ C2_Example =>
              Frames[1] = <<"3", "E", "2", "8", "4", "0", "3", "2",
                            "B", "D", "B", "F">>
        /\ Sends[1].ok =>
              /\ Delta("min_temp_sent") = 1
              /\ Delta("max_temp_sent") = 1
              /\ Delta("combined_sent") = 1
              /\ Delta("min_query_sent") = 0
              /\ Delta("max_query_sent") = 0

C2_Witness ==
    /\ C2_Case /\ C2_Example
    /\ Len(Sends) = 1 /\ Sends[1].k = "post" /\ Sends[1].ok

(* C3: in the mixed case (both fields need action, exactly one known value *)
(* is unknown) the device gets exactly two single-field frames, min first  *)
(* and max second: a query opcode for the field whose known value is       *)
(* unknown, a value-set for the other; combined_sent stays.                *)
C3_Case ==
    /\ Handled
    /\ FieldNeeds(asset_min_temp, known_min)
    /\ FieldNeeds(asset_max_temp, known_max)
    /\ Unknown(known_min) # Unknown(known_max)

C3_TwoFrames ==
    /\ Len(Frames) = 2
    /\ Frames[1] = FieldFrame(TRUE, asset_min_temp, known_min)
    /\ Frames[2] = FieldFrame(FALSE, asset_max_temp, known_max)
    /\ Delta("combined_sent") = 0

\* the claim as stated: for every desired value
C3_Mixed_AsStated == C3_Case => C3_TwoFrames

\* the claim as amended: the desired value to be set is numeric
C3_Mixed ==
    (/\ C3_Case
     /\ Buildable(asset_min_temp, known_min)
     /\ Buildable(asset_max_temp, known_max)) => C3_TwoFrames

C3_Witness ==
    /\ C3_Case
    /\ known_min = None /\ known_max = Deg(24) /\ asset_max_temp = Deg(25)
    /\ Frames = << <<"B", "D">>, <<"4", "0", "3", "2">> >>
    /\ Sends[1].k = "post" /\ Sends[2].k = "post"

(* C4: when exactly one of needsMin / needsMax holds the device gets       *)
(* exactly one frame, for that field: its query opcode if the known value  *)
(* is unknown, else the value-set of the desired value.                    *)
C4_MinOnly ==
    /\ FieldNeeds(asset_min_temp, known_min)
    /\ ~FieldNeeds(asset_max_temp, known_max)

C4_MaxOnly ==
    /\ ~FieldNeeds(asset_min_temp, known_min)
    /\ FieldNeeds(asset_max_temp, known_max)

C4_OneFrame ==
    /\ C4_MinOnly =>
          Frames = <<FieldFrame(TRUE, asset_min_temp, known_min)>>
    /\ C4_MaxOnly =>
          Frames = <<FieldFrame(FALSE, asset_max_temp, known_max)>>

\* the claim as stated: for every desired value
C4_Single_AsStated == (Handled /\ (C4_MinOnly \/ C4_MaxOnly)) => C4_OneFrame

\* the claim as amended: the desired value to be set is numeric
C4_Single ==
    (/\ Handled
     /\ \/ C4_MinOnly /\ Buildable(asset_min_temp, known_min)
        \/ C4_MaxOnly /\ Buildable(asset_max_temp, known_max)) => C4_OneFrame

C4_Witness ==
    /\ Handled /\ C4_MaxOnly
    /\ asset_min_temp = Deg(20) /\ known_min = Deg(20)
    /\ known_max = Deg(24)
    /\ Frames = << <<"4", "0", "3", "2">> >>

(* C5: idempotence.  When the known value equals the desired value for     *)
(* every present desired setpoint, the device gets no frame and no         *)
(* sent / query / combined / error counter changes.                        *)
C5_Quiet ==
    /\ Sends = <<>>
    /\ Delta("min_temp_sent") = 0 /\ Delta("max_temp_sent") = 0
    /\ Delta("min_query_sent") = 0 /\ Delta("max_query_sent") = 0
    /\ Delta("combined_sent") = 0 /\ Delta("errors") = 0

C5_Equal(desired, known) ==
    IsNone(desired) \/ (Numeric(desired) /\ known = desired)

C5_EqualNonZero(desired, known) ==
    IsNone(desired) \/ (Numeric(desired) /\ desired.q # 0 /\ known = desired)

\* the claim as stated: for any numeric desired value
C5_Idempotent_AsStated ==
    (/\ Handled
     /\ C5_Equal(asset_min_temp, known_min)
     /\ C5_Equal(asset_max_temp, known_max)) => C5_Quiet

\* the claim as amended: for any numeric desired value other than 0
C5_Idempotent ==
    (/\ Handled
     /\ C5_EqualNonZero(asset_min_temp, known_min)
     /\ C5_EqualNonZero(asset_max_temp, known_max)) => C5_Quiet

C5_Witness ==
    /\ Handled
    /\ asset_min_temp = Deg(20) /\ known_min = Deg(20)
    /\ asset_max_temp = Deg(25) /\ known_max = Deg(25)
    /\ ~dry_run
    /\ Sends = <<>>

(* C6: with --limit N, N >= 0, devices_processed never exceeds N, and at   *)
(* the end of the run it is the smaller of N and the number of eligible    *)
(* devices.  (Assets that are never reached can only add eligible          *)
(* devices, and they are never reached only once N devices were            *)
(* processed, so the devices of the assets reached decide the minimum.)    *)
C6_Min(a, b) == IF a <= b THEN a ELSE b

C6_Cap ==
    (Numeric(limit) /\ limit.q >= 0) =>
        /\ stats.devices_processed <= limit.q
        /\ pc = "done" =>
              stats.devices_processed = C6_Min(limit.q, eligible)

\* what does hold: the same for N >= 1
C6_CapPositive ==
    (Numeric(limit) /\ limit.q >= 1) =>
        /\ stats.devices_processed <= limit.q
        /\ pc = "done" =>
              stats.devices_processed = C6_Min(limit.q, eligible)

(* C7: once the number of processed devices has reached the cap N, no      *)
(* later asset has its attributes fetched or its devices looked up, and    *)
(* assets_processed and skipped_no_asset_temp no longer change.            *)
C7_CapReached == Truthy(limit) /\ devices_processed_count >= limit.q

C7_Halts ==
    [][C7_CapReached =>
          /\ stats'.assets_processed = stats.assets_processed
          /\ stats'.skipped_no_asset_temp = stats.skipped_no_asset_temp
          /\ eligible' = eligible]_vars

(* C8: in a dry run the transport is never invoked and every send reports  *)
(* success: every frame decided is counted as sent and errors stays 0.     *)
C8_IsPrefix(p, f) == Len(f) >= Len(p) /\ SubSeq(f, 1, Len(p)) = p

C8_Counted(f) ==
    IF f = BDBF
    THEN /\ Delta("min_query_sent") = 1
         /\ Delta("max_query_sent") = 1
         /\ Delta("combined_sent") = 1
    ELSE IF f = <<"B", "D">> THEN Delta("min_query_sent") = 1
    ELSE IF f = <<"B", "F">> THEN Delta("max_query_sent") = 1
    ELSE IF C8_IsPrefix(<<"3", "E">>, f) /\ Len(f) > 4
    THEN /\ Delta("min_temp_sent") = 1
         /\ Delta("max_temp_sent") = 1
         /\ Delta("combined_sent") = 1
    ELSE IF C8_IsPrefix(<<"3", "E">>, f) THEN Delta("min_temp_sent") = 1
    ELSE C8_IsPrefix(<<"4", "0">>, f) /\ Delta("max_temp_sent") = 1

C8_DryRun ==
    dry_run =>
        /\ posts = 0
        /\ \A i \in 1..Len(events) : events[i].k # "post"
        /\ \A i \in 1..Len(Sends) : Sends[i].ok /\ C8_Counted(Sends[i].payload)
        /\ stats.errors = 0

C8_Witness ==
    /\ dry_run /\ pc = "done"
    /\ dispatched >= 2
    /\ stats.min_temp_sent >= 2

(* C9: no retry.  Each frame decided is handed to the transport at most    *)
(* once; a failed send raises errors by exactly one, and the next field    *)
(* of the device is still dealt with.                                      *)
C9_Failed == {i \in 1..Len(Sends) : ~Sends[i].ok}

C9_NoRetry ==
    /\ posts <= dispatched
    /\ NumPosts(events) <= 2
    /\ \A i, j \in 1..Len(Sends) : i # j => Sends[i].payload # Sends[j].payload
    /\ pc = "device_end" => Delta("errors") = Cardinality(C9_Failed)
    /\ (/\ C3_Case
        /\ Buildable(asset_min_temp, known_min)
        /\ Buildable(asset_max_temp, known_max)) => Len(Sends) = 2

C9_Witness ==
    /\ C3_Case
    /\ Len(Sends) = 2
    /\ Sends[1].k = "post" /\ ~Sends[1].ok
    /\ Sends[2].k = "post" /\ Sends[2].ok
    /\ Delta("errors") = 1

(* C10: for every dispatch attempt, in every branch, the action row is     *)
(* written before the transport is invoked, and a failure row after it if  *)
(* the transport reports failure.                                          *)
C10_ActionRows ==
    {"Query Min/Max Temp", "Set Min/Max", "Query Min Temp", "Set Min Temp",
     "Query Max Temp", "Set Max Temp"}

C10_FailureRows ==
    {"Fehler Query Min/Max", "Fehler Min/Max", "Fehler Min", "Fehler Max"}

C10_RowBeforeSend ==
    \A i \in 1..Len(events) :
        events[i].k = "post" =>
            /\ i > 1 /\ events[i - 1].k = "row"
                     /\ events[i - 1].label \in C10_ActionRows
            /\ ~events[i].ok =>
                  /\ i < Len(events) /\ events[i + 1].k = "row"
                                     /\ events[i + 1].label \in C10_FailureRows

\* what does hold: the same in the two combined branches
C10_RowBeforeSend_Combined ==
    (/\ Handled
     /\ FieldNeeds(asset_min_temp, known_min)
     /\ FieldNeeds(asset_max_temp, known_max)
     /\ Unknown(known_min) <=> Unknown(known_max))
    => C10_RowBeforeSend

(* C11: encoding failure.  When a desired setpoint is present but not a    *)
(* number and its known value is present, so that a value-set is due and   *)
(* cannot be built, no frame is sent for that field and none of            *)
(* min_temp_sent, max_temp_sent, combined_sent grows; the run goes on.     *)
C11_NotEncodable(desired, known) ==
    Present(desired) /\ ~Numeric(desired) /\ ~Unknown(known)

\* the frame carries something for the field: its opcodes come first for
\* min, and last or alone for max
C11_Concerns(is_min, f) ==
    IF is_min THEN f[1] \in {"3", "B"} /\ f[2] \in {"E", "D"}
    ELSE f[1] = "4" \/ f = <<"B", "F">> \/ Len(f) > 4

C11_NoFrameFor(is_min) ==
    \A i \in 1..Len(Frames) : ~C11_Concerns(is_min, Frames[i])

C11_EncodingFailure ==
    Handled =>
        /\ C11_NotEncodable(asset_min_temp, known_min) =>
              /\ C11_NoFrameFor(TRUE)
              /\ Delta("min_temp_sent") = 0 /\ Delta("combined_sent") = 0
        /\ C11_NotEncodable(asset_max_temp, known_max) =>
              /\ C11_NoFrameFor(FALSE)
              /\ Delta("max_temp_sent") = 0 /\ Delta("combined_sent") = 0

\* what does hold: nothing is sent for the field, and in the combined
\* branch no counter grows
C11_NothingSent ==
    (Handled /\ C11_NotEncodable(asset_min_temp, known_min)) =>
        /\ C11_NoFrameFor(TRUE)
        /\ Delta("combined_sent") = 0
        /\ (FieldNeeds(asset_max_temp, known_max) /\ ~Unknown(known_max))
              => (Frames = <<>> /\ stats = Inc(stats0, "devices_processed"))

(* C12: identifier-resolution failure.  A device none of whose candidates  *)
(* (declared attribute, name, label, additionalInfo; absent and null ones  *)
(* included) yields a DevEUI is skipped: skipped_no_deveui grows by one,   *)
(* its attributes are not fetched, nothing is sent to it, and the run goes *)
(* on with the next device.                                                *)
\* the candidates of a device, in the order of the specification
Candidates(d) ==
    (IF d.lookup_ok
     THEN [i \in 1..Len(d.attrs) |->
              IF Lower(d.attrs[i].key) \in {<<"d", "e", "v", "e", "u", "i">>,
                                            <<"e", "u", "i">>}
              THEN d.attrs[i].value ELSE Missing]
     ELSE <<>>)
    \o <<d.name, d.label>>
    \o (IF d.additionalInfo.t = "dict"
        THEN [i \in 1..Len(InfoKeys) |-> d.additionalInfo.d[InfoKeys[i]]]
        ELSE <<>>)

\* a candidate succeeds when it is a text that normalises to a DevEUI
Succeeds(v) == v.t = "txt" /\ normalize_deveui(v) # None

RECURSIVE FirstSuccess(_)
FirstSuccess(cs) ==
    IF cs = <<>> THEN None
    ELSE IF Succeeds(Head(cs)) THEN normalize_deveui(Head(cs))
    ELSE FirstSuccess(Tail(cs))

C12_Visited == fn = "main" /\ pc \in {"device_end", "traceback"}

C12_Skipped ==
    (C12_Visited /\ FirstSuccess(Candidates(device)) = None) =>
        /\ pc = "device_end"
        /\ ~deveui
        /\ Delta("skipped_no_deveui") = 1
        /\ calls.extract_deveui
              = calls.get_device_attributes + stats.skipped_no_deveui
        /\ Sends = <<>>

\* what does hold: the same when neither name nor label is null
C12_Skipped_Texts ==
    (/\ C12_Visited /\ FirstSuccess(Candidates(device)) = None
     /\ device.name # None /\ device.label # None) =>
        /\ pc = "device_end"
        /\ ~deveui
        /\ Delta("skipped_no_deveui") = 1
        /\ Delta("devices_processed") = 1
        /\ Sends = <<>>

(* C13: when AGILITY_URL or the registry username/password is missing, or  *)
(* the login fails, the run exits with status 1 before any asset is        *)
(* listed, any attribute fetched or any downlink sent; with missing        *)
(* configuration the login is not attempted either.                        *)
C13_NothingAfterLogin ==
    /\ calls.get_customer_assets = 0
    /\ calls.get_asset_attributes = 0
    /\ calls.get_asset_devices = 0
    /\ calls.extract_deveui = 0
    /\ calls.get_device_attributes = 0
    /\ dispatched = 0
    /\ posts = 0

C13_FailFast ==
    fn = "main" =>
        /\ (~agility_url \/ ~credentials) =>
              /\ pc \in {"start", "exit_1"}
              /\ calls.login_to_thingsboard = 0
              /\ C13_NothingAfterLogin
        /\ ~logged_in =>
              /\ pc \in {"start", "login", "exit_1"}
              /\ C13_NothingAfterLogin

C13_Witness ==
    /\ fn = "main" /\ pc = "exit_1"
    /\ agility_url /\ credentials
    /\ calls.login_to_thingsboard = 1 /\ ~logged_in

(* C14: an asset whose desired min and max are both absent is skipped:     *)
(* skipped_no_asset_temp grows by exactly one, assets_processed and        *)
(* devices_processed stay, and none of its devices is looked up, counted   *)
(* or sent a downlink.                                                     *)
C14_SkipAsset ==
    [][asset_fetched' = "neither" =>
          /\ calls'.get_asset_attributes = calls.get_asset_attributes + 1
          /\ stats' = Inc(stats, "skipped_no_asset_temp")
          /\ calls'.get_asset_devices = calls.get_asset_devices
          /\ calls'.extract_deveui = calls.extract_deveui
          /\ calls'.get_device_attributes = calls.get_device_attributes
          /\ devices_processed_count' = devices_processed_count
          /\ dispatched' = dispatched /\ posts' = posts
          /\ pc' = "asset" /\ ai' = ai + 1]_vars

C14_Witness ==
    /\ asset_fetched = "neither"
    /\ stats.skipped_no_asset_temp = 1
    /\ stats.assets_processed = 1
    /\ stats.devices_processed = 1

(* C15: for every numeric temperature t, temperature_to_hex_payload gives  *)
(* the prefix 3E (min) or 40 (max) followed by exactly two upper-case hex  *)
(* digits that encode trunc(2 * t) as one byte: four hex characters.       *)
Returned(f) == fn = f /\ pc = "returned"

\* trunc(2 * t) for t of q quarter degrees: the integer next to q / 2
\* towards zero
C15_Trunc2(q) ==
    CHOOSE n \in (-4 * MaxFrost)..(4 * MaxTemperature) :
        \/ q >= 0 /\ 2 * n <= q /\ q < 2 * n + 2
        \/ q < 0 /\ 2 * n >= q /\ q > 2 * n - 2

C15_HexValue(ch) == IndexIn(HexChars, ch) - 1

C15_OneByte(f, is_min, q) ==
    /\ Len(f) = 4
    /\ SubSeq(f, 1, 2) = (IF is_min THEN <<"3", "E">> ELSE <<"4", "0">>)
    /\ f[3] \in HexDigits /\ f[4] \in HexDigits
    /\ 16 * C15_HexValue(f[3]) + C15_HexValue(f[4]) = C15_Trunc2(q)

C15_Encoded ==
    (Returned("temperature_to_hex_payload") /\ Numeric(arg.temperature)) =>
        C15_OneByte(ret[1], arg.is_min, arg.temperature.q)

\* what does hold: the same for the temperatures whose double, truncated,
\* is a byte (0 <= t < 128), with the two examples
C15_Encoded_Byte ==
    (/\ Returned("temperature_to_hex_payload") /\ Numeric(arg.temperature)
     /\ C15_Trunc2(arg.temperature.q) \in 0..255) =>
        /\ C15_OneByte(ret[1], arg.is_min, arg.temperature.q)
        /\ (arg.temperature = Deg(20) /\ arg.is_min)
              => ret[1] = <<"3", "E", "2", "8">>
        /\ (arg.temperature = Deg(25) /\ ~arg.is_min)
              => ret[1] = <<"4", "0", "3", "2">>

(* C16: every frame handed to send_downlink_to_agility in a run is a       *)
(* non-empty string of hexadecimal characters of even length, whatever     *)
(* numeric desired setpoints the asset carries.                            *)
C16_IsHexFrame(f) ==
    /\ Len(f) > 0
    /\ Len(f) % 2 = 0
    /\ \A j \in 1..Len(f) : f[j] \in HexDigits

C16_HexFrames ==
    fn = "main" => \A i \in 1..Len(Sends) : C16_IsHexFrame(Sends[i].payload)

\* what does hold: the same when every numeric desired setpoint doubles to
\* a byte
C16_HexFrames_Byte ==
    (/\ fn = "main"
     /\ Numeric(asset_min_temp) => IntTimes2(asset_min_temp.q) \in 0..255
     /\ Numeric(asset_max_temp) => IntTimes2(asset_max_temp.q) \in 0..255)
    => \A i \in 1..Len(Sends) : C16_IsHexFrame(Sends[i].payload)

(* C17: normalize_deveui returns None or a text of exactly 16 characters,  *)
(* each in 0-9A-F; it returns None for an empty or absent input and for    *)
(* every input whose upper-cased form, once EUI- / EUI_ and all spaces,    *)
(* hyphens and colons are removed, is not 16 hex digits; "short123" gives  *)
(* None, "EUI-aabbccdd11223344" gives "AABBCCDD11223344"; applied to its   *)
(* own valid result it returns that result.                                *)
C17_IsDevEUI(c) == Len(c) = 16 /\ \A i \in 1..Len(c) : c[i] \in HexDigits

\* upper-cased, without EUI- / EUI_ and without spaces, hyphens and colons
C17_Cleaned(c) ==
    SelectSeq(Replace(Replace(Upper(c), <<"E", "U", "I", "-">>),
                      <<"E", "U", "I", "_">>),
              LAMBDA ch : ch \notin {" ", "-", ":"})

C17_Example ==
    Txt(<<"E", "U", "I", "-", "a", "a", "b", "b", "c", "c", "d", "d",
          "1", "1", "2", "2", "3", "3", "4", "4">>)

C17_ExampleResult ==
    Txt(<<"A", "A", "B", "B", "C", "C", "D", "D",
          "1", "1", "2", "2", "3", "3", "4", "4">>)

\* all of the claim but its rule for invalid inputs
C17_Results ==
    /\ ret[1] = None \/ (ret[1].t = "txt" /\ C17_IsDevEUI(ret[1].c))
    /\ Falsy(arg) => ret[1] = None
    /\ arg = Txt(<<"s", "h", "o", "r", "t", "1", "2", "3">>) => ret[1] = None
    /\ arg = C17_Example => ret[1] = C17_ExampleResult
    /\ Len(ret) = 2 => ret[2] = ret[1]

\* the claim as stated: the input is cleaned as it stands
C17_Normalized_AsStated ==
    Returned("normalize_deveui") =>
        /\ C17_Results
        /\ (arg.t = "txt" /\ ~C17_IsDevEUI(C17_Cleaned(arg.c)))
              => ret[1] = None

\* the claim as amended: leading and trailing whitespace is trimmed first
C17_Normalized ==
    Returned("normalize_deveui") =>
        /\ C17_Results
        /\ (arg.t = "txt" /\ ~C17_IsDevEUI(C17_Cleaned(Strip(arg.c))))
              => ret[1] = None

C17_Witness ==
    /\ Returned("normalize_deveui")
    /\ arg = C17_Example
    /\ ret = <<C17_ExampleResult, C17_ExampleResult>>

(* C18: extract_deveui returns the normalised value of the first candidate *)
(* that normalises, trying a declared attribute keyed deveui / eui (any    *)
(* case), the device name, the label, then the keys of additionalInfo; a   *)
(* failed attribute lookup counts as absence and the later candidates are  *)
(* still tried; the result is None only if every candidate fails.          *)
C18_FirstCandidate ==
    Returned("extract_deveui") => ret[1] = FirstSuccess(Candidates(arg))

\* what does hold: the same for devices whose name and label are not null
C18_FirstCandidate_Texts ==
    (Returned("extract_deveui") /\ arg.name # None /\ arg.label # None)
    => ret[1] = FirstSuccess(Candidates(arg))

(* C19: a known setpoint that is absent, "" or 0 is unknown: whenever the  *)
(* desired setpoint is present the field needs action and gets a query     *)
(* opcode, never a value-set, also when the desired setpoint is itself 0.  *)
C19_Queried(is_min) ==
    \E i \in 1..Len(Frames) :
        Frames[i] \in {QueryFrame(is_min), BDBF}

\* no frame sets the field: 3E.. sets min; 40.. or a combined set, which
\* is longer than 4, sets max
C19_NeverSet(is_min) ==
    \A i \in 1..Len(Frames) :
        IF is_min THEN Frames[i][1] # "3"
        ELSE Frames[i][1] # "4" /\ (Frames[i][1] = "3" => Len(Frames[i]) <= 4)

C19_UnknownIsQueried ==
    Handled =>
        /\ (Present(asset_min_temp) /\ Unknown(known_min)) =>
              /\ IsNone(device_min_temp)
              /\ C19_Queried(TRUE) /\ C19_NeverSet(TRUE)
        /\ (Present(asset_max_temp) /\ Unknown(known_max)) =>
              /\ IsNone(device_max_temp)
              /\ C19_Queried(FALSE) /\ C19_NeverSet(FALSE)

C19_Witness ==
    /\ Handled
    /\ asset_min_temp = Deg(0) /\ known_min = Deg(0)
    /\ asset_max_temp = Deg(25) /\ known_max = Deg(24)
    /\ Frames = << <<"B", "D">>, <<"4", "0", "3", "2">> >>

(* C20: in live mode send_downlink_to_agility reports success if and only  *)
(* if the transport answered 200, 201 or 202; every other response and     *)
(* every transport error is a failure, after exactly one request.          *)
C20_Live ==
    Returned("send_downlink_to_agility") /\ agility_url /\ ~dry_run

C20_LiveResult ==
    C20_Live =>
        /\ ret[1].ok <=> arg.resp \in {"200", "201", "202"}
        /\ NumPosts(ret[1].ev) = 1
        /\ ret[1].ev[1].payload = arg.payload_hex

C20_Witness ==
    /\ C20_Live
    /\ arg.resp = "204"
    /\ ~ret[1].ok
    /\ NumPosts(ret[1].ev) = 1

(* C21: every run terminates normally: whatever listing, attribute,        *)
(* relation, identifier, encoding and transmission failures occur, the     *)
(* run goes on to the final summary; a run that has ended without it       *)
(* (exit status 1, or a traceback) ended on missing configuration or on a  *)
(* failed login.                                                           *)
C21_EndedEarly == pc \in {"exit_1", "traceback"}

C21_ReachesSummary ==
    C21_EndedEarly => (~agility_url \/ ~credentials \/ ~logged_in)

(* C22: no deduplication across assets.  A device that k assets with a     *)
(* desired setpoint name is passed over k times in a run (fewer only when  *)
(* the cap stops the run), each pass is counted in devices_processed, and  *)
(* each pass decides anew against the asset at hand, so that the device    *)
(* gets its frame on every pass that finds a difference.                   *)
RECURSIVE C22_Sum(_, _)
C22_Sum(f, n) == IF n = 0 THEN 0 ELSE f[n] + C22_Sum(f, n - 1)

C22_NoDedup ==
    /\ \A j \in 1..MaxDevices : visits[j] <= related[j]
    /\ registry = "uniform" =>
          stats.devices_processed = C22_Sum(visits, MaxDevices)
    /\ (pc \in {"summary", "done"} /\ ~limit_reached) => visits = related
    /\ (Handled /\ registry = "uniform") =>
          Len(Frames) = (IF FieldNeeds(asset_min_temp, known_min) THEN 1
                         ELSE 0)

\* the second asset's pass over device 1, which the first asset's pass
\* had sent a frame to, sends it a frame again
C22_Witness ==
    /\ Handled /\ registry = "uniform"
    /\ ai = 1 /\ di = 0
    /\ visits[1] = 2 /\ related[1] = 2
    /\ C22_Sum(visits, MaxDevices) = 2
    /\ stats.devices_processed = 2
    /\ dispatched = 2
    /\ Len(Frames) = 1

(* C26: each per-field counter counts successful transmissions only: for   *)
(* every device its growth is the number of frames sent with success that  *)
(* carry a set (min_temp_sent, max_temp_sent) or a query (min_query_sent,  *)
(* max_query_sent) for the field, in the single-field paths as in the      *)
(* combined ones; a failed or skipped transmission adds nothing.           *)
C26_SetsMin(f) == f[1] = "3"

C26_SetsMax(f) == f[1] = "4" \/ (f[1] = "3" /\ Len(f) > 4)

C26_QueriesMin(f) == f \in {<<"B", "D">>, BDBF}

C26_QueriesMax(f) == f \in {<<"B", "F">>, BDBF}

C26_Successes(Carries(_)) ==
    Cardinality({i \in 1..Len(Sends) :
                    Sends[i].ok /\ Carries(Sends[i].payload)})

C26_CountsSuccesses ==
    Handled =>
        /\ Delta("min_temp_sent") = C26_Successes(C26_SetsMin)
        /\ Delta("max_temp_sent") = C26_Successes(C26_SetsMax)
        /\ Delta("min_query_sent") = C26_Successes(C26_QueriesMin)
        /\ Delta("max_query_sent") = C26_Successes(C26_QueriesMax)

(* C27: a value-set of a field is sent only when the known value of the    *)
(* field is present (not absent, "" or 0) and differs from the desired     *)
(* value, and it carries the desired value; while the known value is       *)
(* unknown, and when it equals the desired value, no frame sets the field. *)
C27_SetsField(is_min, f) ==
    IF is_min THEN f[1] = "3"
    ELSE f[1] = "4" \/ (f[1] = "3" /\ Len(f) > 4)

\* the part of the frame that sets the field
C27_SetPart(is_min, f) ==
    IF is_min THEN SubSeq(f, 1, 4)
    ELSE IF f[1] = "4" THEN f
    ELSE SubSeq(f, 5, Len(f) - 4)

C27_SetOnlyIfDue(is_min, desired, known) ==
    \A i \in 1..Len(Frames) :
        C27_SetsField(is_min, Frames[i]) =>
            /\ ~Unknown(known)
            /\ Present(desired)
            /\ known # desired
            /\ C27_SetPart(is_min, Frames[i]) = SetFrame(is_min, desired)

C27_SetOnlyIfDifferent ==
    Handled =>
        /\ C27_SetOnlyIfDue(TRUE, asset_min_temp, known_min)
        /\ C27_SetOnlyIfDue(FALSE, asset_max_temp, known_max)

\* min 18 against 20 is set, max 25 against 25 is left alone
C27_Witness ==
    /\ Handled
    /\ asset_min_temp = Deg(20) /\ known_min = Deg(18)
    /\ asset_max_temp = Deg(25) /\ known_max = Deg(25)
    /\ Frames = << <<"3", "E", "2", "8">> >>

(* C28: at every point of a run the frames given to the send function are  *)
(* at most twice the devices processed with an identifier                  *)
(* (devices_processed - skipped_no_deveui), skipped_no_deveui is at most   *)
(* devices_processed, and errors is at most the number of frames given.    *)
C28_Bounds ==
    /\ dispatched <= 2 * (stats.devices_processed - stats.skipped_no_deveui)
    /\ stats.skipped_no_deveui <= stats.devices_processed
    /\ stats.errors <= dispatched

\* one device, two frames, both refused
C28_Witness ==
    /\ pc = "done"
    /\ stats.devices_processed = 1 /\ stats.skipped_no_deveui = 0
    /\ dispatched = 2
    /\ stats.errors = 2

(* C23: one-shot authorization retry.  In flush_melita_device_queue and in *)
(* send_melita_queue_message a 403 answer to the request is followed by    *)
(* exactly one token regeneration and, if that issues a token, by exactly  *)
(* one repetition of the request, for the same device and with the new     *)
(* token; the call succeeds iff the last request it made was accepted, a   *)
(* failed regeneration ends it with failure, and it makes at most two      *)
(* requests of its kind.                                                   *)
C23_Of(k) == SelectSeq(trace, LAMBDA e : e.k = k)

\* the part of the trace from the first request of kind k on, and before
C23_First(k) ==
    IF C23_Of(k) = <<>> THEN Len(trace) + 1
    ELSE CHOOSE i \in 1..Len(trace) :
            trace[i].k = k /\ \A j \in 1..(i - 1) : trace[j].k # k

C23_From(k) == SubSeq(trace, C23_First(k), Len(trace))

C23_Before(k) == SubSeq(trace, 1, C23_First(k) - 1)

\* seg is a request of kind k, retried once at most; ok is what it came to
C23_OneShot(seg, k, accepted, ok) ==
    /\ seg # <<>>
    /\ seg[1].k = k
    /\ IF seg[1].status # "403"
       THEN /\ Len(seg) = 1
            /\ ok <=> seg[1].status \in accepted
       ELSE /\ Len(seg) >= 2
            /\ seg[2].k = "generate"
            /\ IF seg[2].status \notin {"200 authToken A", "200 authToken B"}
               THEN Len(seg) = 2 /\ ~ok
               ELSE /\ Len(seg) = 3
                    /\ seg[3].k = k
                    /\ seg[3].device_eui = seg[1].device_eui
                    /\ seg[3].bearer = IssuedToken(seg[2].status)
                    /\ ok <=> seg[3].status \in accepted

C23_OneShotRetry ==
    /\ Returned("flush_melita_device_queue") =>
          /\ Len(C23_Of("DELETE")) <= 2
          /\ Len(C23_Of("generate")) <= 1
          /\ Held(token0) =>
                C23_OneShot(trace, "DELETE", {"200", "204"}, ret[1] = PyTrue)
    /\ Returned("send_melita_queue_message") =>
          /\ Len(C23_Of("POST")) <= 2
          /\ Len(C23_Of("DELETE")) <= 2
          /\ Held(token0) =>
                C23_OneShot(C23_Before("POST"), "DELETE", {"200", "204"},
                            C23_Of("POST") # <<>>)
          /\ C23_Of("POST") # <<>> =>
                C23_OneShot(C23_From("POST"), "POST", {"200"},
                            ret[1] = PyTrue)

\* both the flush and the post are refused once and accepted when repeated
C23_Witness ==
    /\ Returned("send_melita_queue_message")
    /\ Len(trace) = 6
    /\ trace[1].k = "DELETE" /\ trace[1].status = "403"
    /\ trace[2].k = "generate" /\ trace[3].status = "204"
    /\ trace[4].k = "POST" /\ trace[4].status = "403"
    /\ trace[5].status = "200 authToken B"
    /\ trace[6].k = "POST" /\ trace[6].status = "200"
    /\ ret[1] = PyTrue

(* C25: send_melita_queue_message posts to the queue of a device only      *)
(* after the flush of the same device, within the same call, has           *)
(* succeeded; without a bearer token, and when the flush fails, nothing    *)
(* is posted and the call returns False.                                   *)
C25_Deletes(n) == {j \in 1..n : trace[j].k = "DELETE"}

\* the flush that the first n steps of the call make up has succeeded
C25_Flushed(n) ==
    /\ C25_Deletes(n) # {}
    /\ LET last == CHOOSE j \in C25_Deletes(n) :
                       \A i \in C25_Deletes(n) : i <= j
       IN  /\ trace[last].status \in {"200", "204"}
           /\ trace[last].device_eui = arg.device_eui

C25_PostAfterFlush ==
    Returned("send_melita_queue_message") =>
        /\ \A i \in 1..Len(trace) :
              trace[i].k = "POST" =>
                  /\ trace[i].device_eui = arg.device_eui
                  /\ C25_Flushed(i - 1)
        /\ ~Held(token0) => (trace = <<>> /\ ret[1] = PyFalse)
        /\ ~C25_Flushed(Len(trace)) =>
              /\ \A i \in 1..Len(trace) : trace[i].k # "POST"
              /\ ret[1] = PyFalse

\* the flush is refused, the token renewed, the flush refused again
C25_Witness ==
    /\ Returned("send_melita_queue_message")
    /\ Held(token0)
    /\ Len(trace) = 3
    /\ trace[1].status = "403"
    /\ trace[2].status = "200 authToken A"
    /\ trace[3].k = "DELETE" /\ trace[3].status = "404"
    /\ ret[1] = PyFalse

(* C30: generate_melita_bearer_token replaces the module's bearer token    *)
(* only when the auth endpoint answers 200 with an authToken; when the     *)
(* API key is missing, the answer is not 200, carries no authToken or is   *)
(* not JSON, or the request fails, the token held before is still held     *)
(* and is_melita_connected() still reports it.                             *)
C30_Issued(e) ==
    e.k = "generate" /\ e.status \in {"200 authToken A", "200 authToken B"}

C30_TokenKept ==
    /\ Returned("generate_melita_bearer_token") =>
          /\ Len(trace) = 1
          /\ IF C30_Issued(trace[1])
             THEN /\ melita_bearer_token = IssuedToken(trace[1].status)
                  /\ ret[1] = melita_bearer_token
             ELSE /\ melita_bearer_token = token0
                  /\ ret[1] = None
                  /\ is_melita_connected =
                        (IF token0 # None THEN PyTrue ELSE PyFalse)
    /\ (fn # "melita" /\ melita_bearer_token # token0) =>
          \E i \in 1..Len(trace) :
              /\ C30_Issued(trace[i])
              /\ melita_bearer_token = IssuedToken(trace[i].status)

\* token A is held, the refresh gets a body that is not JSON
C30_Witness ==
    /\ Returned("generate_melita_bearer_token")
    /\ token0 = Str("A")
    /\ trace[1].status = "200 not JSON"
    /\ melita_bearer_token = Str("A")
    /\ is_melita_connected = PyTrue

(* C24: create_temperature_hex_payload returns None when min_temp or       *)
(* max_temp has no integer value (None, a text that is not an integer) or  *)
(* an integer value outside 0..255; otherwise it returns 14 hex            *)
(* characters: 08, the min byte, the max byte, 0d, the mode byte, 15, 18,  *)
(* the mode byte being 02 iff operational_mode is 2 or 10, else 00.        *)
C24_Byte(c, i) ==
    16 * (IndexIn(LowerHexChars, c[i]) - 1)
    + (IndexIn(LowerHexChars, c[i + 1]) - 1)

C24_InByte(n) == n.t = "int" /\ n.q >= 0 /\ n.q <= 255

C24_Payload ==
    Returned("create_temperature_hex_payload") =>
        LET min_value == int(arg.min_temp)
            max_value == int(arg.max_temp)
            payload == ret[1]
        IN  IF ~C24_InByte(min_value) \/ ~C24_InByte(max_value)
            THEN payload = None
            ELSE /\ payload.t = "txt"
                 /\ Len(payload.c) = 14
                 /\ \A i \in 1..14 : IndexIn(LowerHexChars, payload.c[i]) # 0
                 /\ SubSeq(payload.c, 1, 2) = <<"0", "8">>
                 /\ C24_Byte(payload.c, 3) = min_value.q
                 /\ C24_Byte(payload.c, 5) = max_value.q
                 /\ SubSeq(payload.c, 7, 8) = <<"0", "d">>
                 /\ SubSeq(payload.c, 9, 10) =
                       (IF arg.operational_mode \in {Num(4 * 2), Num(4 * 10)}
                        THEN <<"0", "2">> ELSE <<"0", "0">>)
                 /\ SubSeq(payload.c, 11, 14) = <<"1", "5", "1", "8">>

\* 20.5 and 255.75 degrees in mode 10: 0814ff0d021518
C24_Witness ==
    /\ Returned("create_temperature_hex_payload")
    /\ arg.min_temp = Num(4 * 20 + 2)
    /\ arg.max_temp = Num(4 * 255 + 3)
    /\ arg.operational_mode = Num(4 * 10)
    /\ ret[1] = Txt(<<"0", "8", "1", "4", "f", "f", "0", "d", "0", "2",
                      "1", "5", "1", "8">>)

(* C29: check_valvePosition counts every row of the query exactly once:    *)
(* success_count + error_count is the number of rows passed, and after     *)
(* the send loop the number of rows; a row that holds no device id is      *)
(* counted as an error and nothing is sent for it; in a dry run no         *)
(* request is made and every row that holds an id counts as a success.     *)
C29_HasId(device_row) ==
    \E key \in {"device_id", "deviceId", "id"} :
        device_row[key] \notin {Missing, None, Txt(<<>>), PyInt(0)}

C29_Passed(P(_)) == Cardinality({i \in 1..row : P(i)})

C29_WithId(i) == C29_HasId(devices[i])

C29_Failed(i) == ~attempts[i].ok

C29_CountedOnce ==
    fn = "check_valvePosition" =>
        /\ Len(attempts) = row
        /\ success_count + error_count = row
        /\ (pc = "closed" /\ devices # <<>>) =>
              success_count + error_count = Len(devices)
        /\ error_count = C29_Passed(C29_Failed)
        /\ \A i \in 1..row :
              ~C29_HasId(devices[i]) =>
                  (attempts[i].sent = "none" /\ ~attempts[i].ok)
        /\ dry_run =>
              /\ \A i \in 1..row : attempts[i].sent # "post"
              /\ success_count = C29_Passed(C29_WithId)

\* a dry run over three rows, one of which holds no id
C29_Witness ==
    /\ fn = "check_valvePosition" /\ pc = "closed" /\ dry_run
    /\ Len(devices) = 3
    /\ ~C29_HasId(devices[2])
    /\ success_count = 2 /\ error_count = 1

=============================================================================
